---------------------------- MODULE Spec2Model ----------------------------
(***************************************************************************)
(* A model of the front end of the "have" compiler:                        *)
(*   - the scope-emitting lexer (src/unnamed/part_001),                    *)
(*   - the lexer that emits raw INDENT tokens (src/lexer.go),              *)
(*   - the type negotiator (src/unnamed/part_000).                         *)
(***************************************************************************)
EXTENDS Integers, Sequences, FiniteSets, TLC

VARIABLES
    lexer,          \* which Lexer type was constructed: "scope" or "rich"
    buf,            \* Lexer.buf: the runes not processed yet
    indentsStack,   \* Lexer.indentsStack
    queue,          \* Lexer.queue (scope-emitting lexer)
    tokenIndent,    \* Lexer.tokenIndent (lexer.go): the postponed INDENT token
    skipped,        \* Lexer.skipped (lexer.go)
    curTokenPos,    \* Lexer.curTokenPos (lexer.go)
    beyond,         \* the runes of buf between its length and its capacity (lexer.go)
    pc,             \* "idle" between Next() calls, "Next" at the entry of a self-call,
                    \* "panic" once a call has ended in a run-time panic
    calls           \* history: one record per Next() call made so far

VARIABLES
    unit,           \* what is run: "block" or "expr" (TypeSpec), "guess",
                    \* "apply" or "unpack" (ExprSpec), "types" (RelSpec)
    block,          \* CodeBlock.Statements
    varTypes,       \* Variable.Type of every variable in scope
    slotType,       \* the type in the slot handed to NegotiateExprType
    valueExpr,      \* the value handed to NegotiateExprType
    runs,           \* history: one record per call of the negotiator so far
    leftType,       \* the first type handed to a relation on types
    rightType,      \* the second type handed to a relation on types
    verdicts,       \* what each relation answered on leftType and rightType
    slotTypes,      \* the slots handed to NegotiateTupleUnpackAssign
    callsOnly       \* the onlyFuncCalls flag handed to NegotiateTupleUnpackAssign

lexVars ==
    <<lexer, buf, indentsStack, queue, tokenIndent, skipped, curTokenPos, beyond, pc, calls>>

relVars == <<leftType, rightType, verdicts>>

unpackVars == <<slotTypes, callsOnly>>

typeVars == <<unit, block, varTypes, slotType, valueExpr, runs, relVars, unpackVars>>

vars == <<lexVars, typeVars>>

-----------------------------------------------------------------------------
(* Bounds of the model. *)

\* Lines of a line-structured input.
MaxLines == 3
\* Widest indent of a line of a line-structured input.
MaxIndent == 3
\* Length of the inputs drawn from every string over MixedChars.
MaxMixedLen == 4
\* Next() calls made after the first end-of-input token or error.
MaxExtraCalls == 2
\* Statements of a code block.
MaxStmts == 2
\* Calls of the negotiator on one program.
MaxTypeCalls == 2
\* Slots handed to one call of NegotiateTupleUnpackAssign.
MaxSlots == 3

\* Inputs of the lexer of lexer.go are built of at most this many pieces.
MaxPieces == 2

-----------------------------------------------------------------------------
(* Values shared by both lexers. *)

\* Go's nil as a token's absent Value and as a nil error.
Nil == "<nil>"

\* Go's nil as a *Token.
NoToken == [Type |-> Nil]

\* A Go panic, as the error of the call it ends.
Panic == "panic"

NL == "\n"

\* unicode.IsSpace on the characters of the model's inputs.
IsSpace(ch) == ch \in {" ", "\t", "\n", "\r"}

\* unicode.IsLetter on the characters of the model's inputs.
IsLetter(ch) == ch \in {"a", "e", "f", "i", "n", "o", "r", "t"}

\* string(word): the runes of a word as one string.
RECURSIVE StringOf(_)
StringOf(runes) ==
    IF runes = <<>> THEN "" ELSE Head(runes) \o StringOf(Tail(runes))

\* b[n:] of a Go slice.
DropFirst(b, n) == SubSeq(b, n + 1, Len(b))

\* The number of leading runes of b that are whitespace other than newline.
RECURSIVE WhiteRun(_)
WhiteRun(b) ==
    IF Len(b) > 0 /\ IsSpace(b[1]) /\ b[1] # NL
    THEN 1 + WhiteRun(Tail(b))
    ELSE 0

-----------------------------------------------------------------------------
(* The scope-emitting lexer, src/unnamed/part_001. *)

TOKEN_EOF == "eof"
TOKEN_NEWSCOPE == "newscope"
TOKEN_ENDSCOPE == "endscope"
TOKEN_FOR == "for"
TOKEN_WORD == "word"

Token(type, value) == [Type |-> type, Value |-> value]

\* NewLexer(buf)
NewLexer(b) == [buf |-> b, indentsStack |-> <<>>, queue |-> <<>>]

\* Lexer.skip
skip(l) == [l EXCEPT !.buf = Tail(l.buf)]

\* Lexer.isEnd
isEnd(l) == Len(l.buf) = 0

\* Lexer.skipWhiteChars: the lexer after it, and the number of runes skipped.
skipWhiteChars(l) ==
    LET n == WhiteRun(l.buf)
    IN  [l |-> [l EXCEPT !.buf = DropFirst(l.buf, n)], counter |-> n]

\* The length of the run of letters scanWord takes.
RECURSIVE LetterRun(_)
LetterRun(b) ==
    IF Len(b) > 0 /\ (IsLetter(b[1]) \/ IsLetter(b[1]))
    THEN 1 + LetterRun(Tail(b))
    ELSE 0

\* Lexer.scanWord
scanWord(l) ==
    LET i == LetterRun(l.buf)
    IN  [l |-> [l EXCEPT !.buf = DropFirst(l.buf, i)], word |-> SubSeq(l.buf, 1, i)]

\* Lexer.emitFromQueue
emitFromQueue(l) ==
    [l |-> [l EXCEPT !.queue = Tail(l.queue)], tok |-> Head(l.queue), err |-> Nil]

\* DrainStack with the bug of clearing the stack without queueing anything.
DrainStackSilent(l) == [l EXCEPT !.indentsStack = <<>>]

\* DrainStack with the bug of queueing the tokens and keeping the stack.
DrainStackKeeps(l) ==
    [l EXCEPT !.queue = l.queue \o [i \in 1..Len(l.indentsStack) |-> Token(TOKEN_ENDSCOPE, Nil)]]

\* The loop of Next at end of input: one ENDSCOPE per entry of the stack.
DrainStack(l) ==
    [l EXCEPT !.queue = l.queue \o [i \in 1..Len(l.indentsStack) |-> Token(TOKEN_ENDSCOPE, Nil)],
              !.indentsStack = <<>>]

\* PopGreater with the bug of queueing nothing for the entries it pops.
RECURSIVE PopGreaterSilent(_, _)
PopGreaterSilent(l, indent) ==
    IF Len(l.indentsStack) > 0 /\ l.indentsStack[Len(l.indentsStack)] > indent
    THEN PopGreaterSilent(
             [l EXCEPT !.indentsStack = SubSeq(l.indentsStack, 1, Len(l.indentsStack) - 1)],
             indent)
    ELSE l

\* PopGreater with the bug of popping the entries equal to indent too.
RECURSIVE PopGreaterOrEqual(_, _)
PopGreaterOrEqual(l, indent) ==
    IF Len(l.indentsStack) > 0 /\ l.indentsStack[Len(l.indentsStack)] >= indent
    THEN PopGreaterOrEqual(
             [l EXCEPT !.queue = Append(l.queue, Token(TOKEN_ENDSCOPE, Nil)),
                       !.indentsStack = SubSeq(l.indentsStack, 1, Len(l.indentsStack) - 1)],
             indent)
    ELSE l

\* The loop of Next on a dedent: pop every entry greater than indent,
\* queueing one ENDSCOPE per pop.
RECURSIVE PopGreater(_, _)
PopGreater(l, indent) ==
    IF Len(l.indentsStack) > 0 /\ l.indentsStack[Len(l.indentsStack)] > indent
    THEN PopGreater([l EXCEPT !.queue = Append(l.queue, Token(TOKEN_ENDSCOPE, Nil)),
                              !.indentsStack = SubSeq(l.indentsStack, 1, Len(l.indentsStack) - 1)],
                    indent)
    ELSE l

\* dedent with the bug of accepting the nearest smaller width.
dedentClosestMatch(l, indent) == [l |-> PopGreater(l, indent), bad |-> FALSE]

\* The dedent branch of Next: the lexer after the pops, and whether the top
\* of the stack left by them differs from indent ("Bad indent").
dedent(l, indent) ==
    LET p == PopGreater(l, indent)
    IN  [l |-> p,
         bad |-> Len(p.indentsStack) > 0 /\ p.indentsStack[Len(p.indentsStack)] # indent]

\* endOfInput with the bug of returning end-of-input before the queued tokens.
endOfInputEofFirst(l) == [l |-> DrainStack(l), eof |-> TRUE]

\* The end-of-input branch of Next: the stack drained into the queue, and
\* whether the end-of-input token is returned now (nothing is queued).
endOfInput(l) ==
    LET d == DrainStack(l)
    IN  [l |-> d, eof |-> Len(d.queue) = 0]

\* isBlankLine with the bug of treating a blank line like any other.
isBlankLineNever(l) == FALSE

\* Whether the line just measured is blank: a newline follows its whitespace.
isBlankLine(l) == l.buf[1] = NL

\* opensScope with the bug of opening a scope on every line.
opensScopeAlways(l, indent) == TRUE

\* opensScope with the bug of opening a scope at the width of the top.
opensScopeOnEqual(l, indent) ==
    Len(l.indentsStack) = 0 \/ indent >= l.indentsStack[Len(l.indentsStack)]

\* Whether a line of this indent opens a scope.
opensScope(l, indent) ==
    Len(l.indentsStack) = 0 \/ indent > l.indentsStack[Len(l.indentsStack)]

\* Lexer.Next: the lexer after the call, the token returned and the error.
RECURSIVE ScopeNext(_)
ScopeNext(l) ==
    IF Len(l.queue) > 0 THEN emitFromQueue(l)
    ELSE IF isEnd(l) THEN
        LET e == endOfInput(l)
        IN  IF e.eof
            THEN [l |-> e.l, tok |-> Token(TOKEN_EOF, Nil), err |-> Nil]
            ELSE ScopeNext(e.l)
    ELSE LET ch == l.buf[1] IN
        IF ch = NL THEN
            LET s == skipWhiteChars(skip(l))
                indent == s.counter
            IN  IF isEnd(s.l) THEN ScopeNext(s.l)
                ELSE IF isBlankLine(s.l) THEN ScopeNext(s.l)
                ELSE IF opensScope(s.l, indent)
                THEN [l |-> [s.l EXCEPT !.indentsStack = Append(s.l.indentsStack, indent)],
                      tok |-> Token(TOKEN_NEWSCOPE, Nil), err |-> Nil]
                ELSE LET d == dedent(s.l, indent)
                     IN  IF d.bad
                         THEN [l |-> d.l, tok |-> NoToken, err |-> "Bad indent"]
                         ELSE ScopeNext(d.l)
        ELSE IF IsSpace(ch) THEN ScopeNext(skipWhiteChars(l).l)
        ELSE IF IsLetter(ch) THEN
            LET w == scanWord(l)
                s == StringOf(w.word)
            IN  IF s = "for"
                THEN [l |-> w.l, tok |-> Token(TOKEN_FOR, Nil), err |-> Nil]
                ELSE [l |-> w.l, tok |-> Token(TOKEN_WORD, s), err |-> Nil]
        ELSE [l |-> l, tok |-> NoToken, err |-> "Don't know what to do"]

\* One pass through the body of Next, up to its return or its self-call:
\* again tells that Next calls itself, on the lexer l.
ScopePass(l) ==
    LET ret == [again |-> FALSE] @@ ScopeNext(l)
        self(l1) == [again |-> TRUE, l |-> l1, tok |-> NoToken, err |-> Nil]
    IN  IF Len(l.queue) > 0 THEN ret
        ELSE IF isEnd(l) THEN
            LET e == endOfInput(l) IN IF e.eof THEN ret ELSE self(e.l)
        ELSE LET ch == l.buf[1] IN
            IF ch = NL THEN
                LET s == skipWhiteChars(skip(l))
                IN  IF isEnd(s.l) \/ isBlankLine(s.l) THEN self(s.l)
                    ELSE IF opensScope(s.l, s.counter) THEN ret
                    ELSE LET d == dedent(s.l, s.counter)
                         IN  IF d.bad THEN ret ELSE self(d.l)
            ELSE IF IsSpace(ch) THEN self(skipWhiteChars(l).l)
            ELSE ret

-----------------------------------------------------------------------------
(* The lexer of src/lexer.go, which emits raw INDENT tokens. *)

RTOKEN_EOF == "TOKEN_EOF"
RTOKEN_INDENT == "TOKEN_INDENT"
RTOKEN_WORD == "TOKEN_WORD"

\* The keyword switch of Next: the token type of each keyword.
Keywords ==
    [ for |-> "TOKEN_FOR", pass |-> "TOKEN_PASS", package |-> "TOKEN_PACKAGE",
      var |-> "TOKEN_VAR", if |-> "TOKEN_IF", else |-> "TOKEN_ELSE",
      elif |-> "TOKEN_ELIF", switch |-> "TOKEN_SWITCH", case |-> "TOKEN_CASE",
      return |-> "TOKEN_RETURN", ret |-> "TOKEN_RETURN", true |-> "TOKEN_TRUE",
      false |-> "TOKEN_FALSE", struct |-> "TOKEN_STRUCT",
      interface |-> "TOKEN_INTERFACE", map |-> "TOKEN_MAP", func |-> "TOKEN_FUNC",
      type |-> "TOKEN_TYPE", break |-> "TOKEN_BREAK", continue |-> "TOKEN_CONTINUE",
      fallthrough |-> "TOKEN_FALLTHROUGH", goto |-> "TOKEN_GOTO", nil |-> "TOKEN_NIL" ]

\* unicode.IsNumber on the characters of the model's inputs.
IsNumber(ch) == ch \in {"0", "1"}

\* NewLexer(buf) of lexer.go. beyond holds the runes the caller's slice keeps
\* between its length and its capacity: Go lets buf[:n] reach them.
RichNewLexer(b, hidden) ==
    [buf |-> b, beyond |-> hidden, indentsStack |-> <<>>, tokenIndent |-> NoToken,
     skipped |-> 0, curTokenPos |-> 0]

\* Lexer.skipBy
skipBy(l, n) == [l EXCEPT !.skipped = l.skipped + n, !.buf = DropFirst(l.buf, n)]

\* Lexer.skip of lexer.go
richSkip(l) == [l EXCEPT !.skipped = l.skipped + 1, !.buf = Tail(l.buf)]

\* Lexer.skipWhiteChars of lexer.go: the lexer after it, and the runes skipped.
richSkipWhiteChars(l) ==
    LET i == WhiteRun(l.buf)
    IN  [l |-> skipBy(l, i), whitespace |-> SubSeq(l.buf, 1, i)]

\* The length of the run of letters and digits scanWord takes.
RECURSIVE AlnumRun(_)
AlnumRun(b) ==
    IF Len(b) > 0 /\ (IsLetter(b[1]) \/ IsNumber(b[1]))
    THEN 1 + AlnumRun(Tail(b))
    ELSE 0

\* Lexer.scanWord of lexer.go
richScanWord(l) ==
    LET i == AlnumRun(l.buf)
    IN  [l |-> skipBy(l, i), word |-> SubSeq(l.buf, 1, i)]

\* newToken with the bug of stamping the cursor instead of the token's start.
newTokenAtCursor(l, typ, val) == [Type |-> typ, Offset |-> l.skipped, Value |-> val]

\* Lexer.newToken
newToken(l, typ, val) == [Type |-> typ, Offset |-> l.curTokenPos, Value |-> val]

\* Lexer.retNewToken
retNewToken(l, typ, val) == [l |-> l, tok |-> newToken(l, typ, val), err |-> Nil]

\* Lexer.checkAlt: the alternatives are tried in order. buf[:len(alt)] is
\* legal up to the capacity of buf and panics beyond it; a match that
\* reaches past the length of buf panics in skipBy, after skipped is raised.
RECURSIVE checkAlt(_, _)
checkAlt(l, alts) ==
    IF alts = <<>> THEN [l |-> l, alt |-> "", ok |-> FALSE, panic |-> FALSE]
    ELSE LET alt == Head(alts)
             n == Len(alt)
         IN  IF n > Len(l.buf) + Len(l.beyond)
             THEN [l |-> l, alt |-> "", ok |-> FALSE, panic |-> TRUE]
             ELSE IF StringOf(SubSeq(l.buf \o l.beyond, 1, n)) = alt
             THEN IF n > Len(l.buf)
                  THEN [l |-> [l EXCEPT !.skipped = l.skipped + n],
                        alt |-> "", ok |-> FALSE, panic |-> TRUE]
                  ELSE [l |-> skipBy(l, n), alt |-> alt, ok |-> TRUE, panic |-> FALSE]
             ELSE checkAlt(l, Tail(alts))

Quote == "\""
Backslash == "\\"

\* The loop of loadEscapedString over the runes after the opening quote,
\* from index i (counted from 0 as in the code).
RECURSIVE stringEnd(_, _)
stringEnd(b, i) ==
    IF i >= Len(b) THEN [closed |-> FALSE, err |-> "Unterminated string literal"]
    ELSE IF b[i + 1] = Backslash THEN
        IF i + 1 = Len(b)
        THEN [closed |-> FALSE, err |-> "Unexpected file end - middle of a string literal"]
        ELSE stringEnd(b, i + 2)
    ELSE IF b[i + 1] = Quote THEN [closed |-> TRUE, i |-> i]
    ELSE stringEnd(b, i + 1)

\* Lexer.loadEscapedString: the lexer after it, the string and the error.
loadEscapedString(l) ==
    IF Len(l.buf) = 0 \/ l.buf[1] # Quote
    THEN [l |-> l, str |-> "", err |-> "String literal has to start with a double quote"]
    ELSE LET l1 == richSkip(l)
             e == stringEnd(l1.buf, 0)
         IN  IF e.closed
             THEN [l |-> skipBy(l1, e.i + 1), str |-> StringOf(SubSeq(l1.buf, 1, e.i)),
                   err |-> Nil]
             ELSE [l |-> l1, str |-> "", err |-> e.err]

\* The length of the run of decimal digits at the start of b.
RECURSIVE DigitRun(_)
DigitRun(b) == IF Len(b) > 0 /\ IsNumber(b[1]) THEN 1 + DigitRun(Tail(b)) ELSE 0

\* Lexer.scanGoToken on a buffer that starts with a decimal digit: Go's
\* scanner reads the digits, an exponent (e, a sign, digits) and the suffix
\* i; an exponent without digits is reported to the error handler with the
\* position line:column of the scanner's own file, which is the rest of the
\* buffer, and the literal is skipped all the same.
scanGoToken(l) ==
    LET b == l.buf
        m == DigitRun(b)
        hasExp == m < Len(b) /\ b[m + 1] = "e"
        signed == hasExp /\ m + 1 < Len(b) /\ b[m + 2] \in {"+", "-"}
        expStart == m + 1 + (IF signed THEN 1 ELSE 0)
        x == IF hasExp THEN DigitRun(DropFirst(b, expStart)) ELSE 0
        afterExp == IF hasExp THEN expStart + x ELSE m
        imag == afterExp < Len(b) /\ b[afterExp + 1] = "i"
        n == afterExp + (IF imag THEN 1 ELSE 0)
    IN  [l |-> skipBy(l, n),
         token |-> IF imag THEN "IMAG" ELSE IF hasExp THEN "FLOAT" ELSE "INT",
         lit |-> StringOf(SubSeq(b, 1, n)),
         err |-> IF hasExp /\ x = 0
                 THEN "Scanner error: 1:" \o ToString(expStart + 1)
                          \o ", exponent has no digits"
                 ELSE Nil]

\* Lexer.fromGoToken
fromGoToken(l, token, lit) ==
    IF token \in {"INT", "FLOAT", "IMAG"}
    THEN retNewToken(l, "TOKEN_NUM", lit)
    ELSE [l |-> l, tok |-> NoToken, err |-> "Unexpected Go token: " \o token]

\* The checkAlt calls of Next: the alternatives tried for each first rune.
Alts ==
    ("=" :> <<"==", "=">>) @@ ("!" :> <<"!=", "!">>) @@
    ("+" :> <<"++", "+=", "+">>) @@ ("-" :> <<"--", "-=", "-">>) @@
    ("<" :> <<"<<", "<-", "<=", "<">>) @@ (">" :> <<">>", ">=", ">">>) @@
    ("*" :> <<"*=", "*">>) @@ ("/" :> <<"/=", "/">>) @@
    ("&" :> <<"&&", "&">>) @@ ("|" :> <<"||", "|">>)

\* The switches of Next on the alternative checkAlt matched, and its cases
\* that skip one rune: the token of each operator and punctuation mark.
OperatorTokens ==
    ("=" :> "TOKEN_ASSIGN") @@ ("==" :> "TOKEN_EQUALS") @@
    ("!=" :> "TOKEN_NEQUALS") @@ ("!" :> "TOKEN_NEGATE") @@
    ("+" :> "TOKEN_PLUS") @@ ("+=" :> "TOKEN_PLUS_ASSIGN") @@ ("++" :> "TOKEN_INCREMENT") @@
    ("-" :> "TOKEN_MINUS") @@ ("-=" :> "TOKEN_MINUS_ASSIGN") @@ ("--" :> "TOKEN_DECREMENT") @@
    ("<" :> "TOKEN_LT") @@ ("<-" :> "TOKEN_SEND") @@ ("<<" :> "TOKEN_SHL") @@
    ("<=" :> "TOKEN_EQ_LT") @@
    (">" :> "TOKEN_GT") @@ (">>" :> "TOKEN_SHR") @@ (">=" :> "TOKEN_EQ_GT") @@
    ("*" :> "TOKEN_MUL") @@ ("*=" :> "TOKEN_MUL_ASSIGN") @@
    ("/" :> "TOKEN_DIV") @@ ("/=" :> "TOKEN_DIV_ASSIGN") @@
    ("&&" :> "TOKEN_AND") @@ ("&" :> "TOKEN_AMP") @@
    ("||" :> "TOKEN_OR") @@ ("|" :> "TOKEN_PIPE") @@
    ("(" :> "TOKEN_LPARENTH") @@ (")" :> "TOKEN_RPARENTH") @@
    ("[" :> "TOKEN_LBRACKET") @@ ("]" :> "TOKEN_RBRACKET") @@
    ("{" :> "TOKEN_LBRACE") @@ ("}" :> "TOKEN_RBRACE") @@
    ("." :> "TOKEN_DOT") @@ ("," :> "TOKEN_COMMA") @@ (";" :> "TOKEN_SEMICOLON") @@
    (":" :> "TOKEN_COLON") @@ ("%" :> "TOKEN_PERCENT")

\* Lexer.Next of lexer.go: the lexer after the call, the token and the error.
RECURSIVE RichNext(_)
RichNext(l0) ==
    LET l == [l0 EXCEPT !.curTokenPos = l0.skipped] IN
    IF (Len(l.buf) = 0 \/ l.buf[1] # NL) /\ l.tokenIndent # NoToken
    THEN [l |-> [l EXCEPT !.tokenIndent = NoToken], tok |-> l.tokenIndent, err |-> Nil]
    ELSE IF Len(l.buf) = 0 THEN retNewToken(l, RTOKEN_EOF, Nil)
    ELSE LET ch == l.buf[1] IN
        IF ch = NL THEN
            LET s == richSkipWhiteChars(richSkip(l))
                indent == StringOf(s.whitespace)
            IN  RichNext([s.l EXCEPT !.tokenIndent = newToken(s.l, RTOKEN_INDENT, indent)])
        ELSE IF IsSpace(ch) THEN RichNext(richSkipWhiteChars(l).l)
        ELSE IF IsLetter(ch) THEN
            LET w == richScanWord(l)
                s == StringOf(w.word)
            IN  IF s \in DOMAIN Keywords
                THEN retNewToken(w.l, Keywords[s], Nil)
                ELSE retNewToken(w.l, RTOKEN_WORD, s)
        ELSE IF ch \in DOMAIN Alts THEN
            LET c == checkAlt(l, Alts[ch])
            IN  IF c.panic THEN [l |-> c.l, tok |-> NoToken, err |-> Panic]
                ELSE IF c.ok THEN retNewToken(c.l, OperatorTokens[c.alt], c.alt)
                ELSE [l |-> c.l, tok |-> NoToken,
                      err |-> "Don't know what to do, '" \o ch \o "'"]
        ELSE IF IsNumber(ch) THEN
            LET g == scanGoToken(l)
            IN  IF g.err # Nil THEN [l |-> g.l, tok |-> NoToken, err |-> g.err]
                ELSE fromGoToken(g.l, g.token, g.lit)
        ELSE IF ch = Quote THEN
            LET q == loadEscapedString(l)
            IN  IF q.err # Nil THEN [l |-> q.l, tok |-> NoToken, err |-> q.err]
                ELSE retNewToken(q.l, "TOKEN_STR", q.str)
        ELSE IF ch \in DOMAIN OperatorTokens
        THEN retNewToken(richSkip(l), OperatorTokens[ch], IF ch = "%" THEN "%" ELSE Nil)
        ELSE [l |-> l, tok |-> NoToken, err |-> "Don't know what to do, '" \o ch \o "'"]

\* One pass through the body of Next of lexer.go, up to its return or its
\* self-call: again tells that Next calls itself, on the lexer l.
RichPass(l0) ==
    LET l == [l0 EXCEPT !.curTokenPos = l0.skipped]
        ret == [again |-> FALSE] @@ RichNext(l0)
        self(l1) == [again |-> TRUE, l |-> l1, tok |-> NoToken, err |-> Nil]
    IN  IF Len(l.buf) = 0 THEN ret
        ELSE IF l.buf[1] = NL THEN
            LET s == richSkipWhiteChars(richSkip(l))
            IN  self([s.l EXCEPT !.tokenIndent =
                                     newToken(s.l, RTOKEN_INDENT, StringOf(s.whitespace))])
        ELSE IF l.tokenIndent # NoToken THEN ret
        ELSE IF IsSpace(l.buf[1]) THEN self(richSkipWhiteChars(l).l)
        ELSE ret

-----------------------------------------------------------------------------
(* The inputs the lexers are run on. *)

Spaces(n) == [i \in 1..n |-> " "]

\* What a line holds after its indent: nothing or a word.
Contents == {<<>>, <<"a">>}

\* A newline, an indent and a content.
Lines == {<<NL>> \o Spaces(n) \o c : n \in 0..MaxIndent, c \in Contents}

RECURSIVE LineSeqs(_)
LineSeqs(k) ==
    IF k = 0 THEN {<<>>}
    ELSE LET shorter == LineSeqs(k - 1)
         IN  shorter \cup {p \o ln : p \in shorter, ln \in Lines}

\* Line-structured inputs: an optional word, then up to MaxLines lines.
LineInputs == {first \o rest : first \in {<<>>, <<"a">>}, rest \in LineSeqs(MaxLines)}

MixedChars == {NL, " ", "f", "o", "r", "#"}

\* Every string over MixedChars of length up to MaxMixedLen.
MixedInputs == UNION {[1..n -> MixedChars] : n \in 0..MaxMixedLen}

\* Pieces of source text for the lexer of lexer.go: words that are keywords
\* and words that are not, numbers well-formed and not, operators, string
\* literals closed and open, a parenthesis, white space and a rune the
\* lexer has no case for.
Pieces ==
    { <<"i", "n">>, <<"r", "e", "t">>, <<"i", "f">>, <<"t">>,
      <<"1">>, <<"1", "e">>, <<"1", "i">>,
      <<"=">>, <<"<", "-">>, <<"(">>,
      <<Quote>>, <<Quote, "t", Quote>>, <<Quote, Backslash>>,
      <<NL>>, <<" ">>, <<"#">> }

\* The texts made of at most n pieces.
RECURSIVE PieceSeqs(_)
PieceSeqs(n) ==
    IF n = 0 THEN {<<>>}
    ELSE PieceSeqs(n - 1) \cup {p \o q : p \in Pieces, q \in PieceSeqs(n - 1)}

\* What the caller's slice holds between its length and its capacity:
\* nothing (capacity = length), the zero rune of a fresh []rune(string)
\* conversion, or the next rune of a longer text the slice was cut from.
Hidden == {<<>>, <<"NUL">>, <<"=">>}

-----------------------------------------------------------------------------
(* The type model the negotiator works on (spec.md 3.2): the closed set of *)
(* type variants, their canonical strings and their predicates.            *)

\* Go's nil as a Type.
NilType == [kind |-> "NIL"]

UnknownType == [kind |-> "UNKNOWN"]
SimpleType(id) == [kind |-> "SIMPLE", id |-> id]
PointerType(to) == [kind |-> "POINTER", To |-> to]
SliceType(of) == [kind |-> "SLICE", Of |-> of]
ArrayType(of, size) == [kind |-> "ARRAY", Of |-> of, Size |-> size]
MapType(by, of) == [kind |-> "MAP", By |-> by, Of |-> of]
ChanType(of, dir) == [kind |-> "CHAN", Of |-> of, Dir |-> dir]
FuncType(args, results) == [kind |-> "FUNC", Args |-> args, Results |-> results]
TupleType(members) == [kind |-> "TUPLE", Members |-> members]
\* An interface type: its methods, a sequence of FuncDecl.
IfaceType(methods) == [kind |-> "INTERFACE", Methods |-> methods]
\* A named type: a reference to its declaration.
CustomType(name) == [kind |-> "CUSTOM", Name |-> name]

CHAN_DIR_BIDI == "bidi"
CHAN_DIR_SEND == "send"
CHAN_DIR_RECEIVE == "receive"

\* A method: FuncDecl.name, FuncDecl.typ, FuncDecl.PtrReceiver.
Method(name, typ, ptr) == [name |-> name, typ |-> typ, PtrReceiver |-> ptr]

BoolT == SimpleType("bool")
IntT == SimpleType("int")
StringT == SimpleType("string")
Float64T == SimpleType("float64")

\* func() string
StringFunc == FuncType(<<>>, <<StringT>>)

\* interface{}
EmptyIface == IfaceType(<<>>)

\* interface{ String() string }
StringerIface == IfaceType(<<Method("String", StringFunc, FALSE)>>)

\* The type declarations of the programs checked: TypeDecl.AliasedType and
\* TypeDecl.Methods by name.
\*   type MyInt int
\*   type Celsius int, with func (c Celsius) String() string
\*   type Kelvin int, with func (k *Kelvin) String() string
\*   type Any interface{}
\*   type Stringer interface{ String() string }
\*   type IntPtr *int
\*   type Ints []int
TypeDecls ==
    [ MyInt |-> [AliasedType |-> IntT, Methods |-> <<>>],
      Celsius |-> [AliasedType |-> IntT,
                   Methods |-> <<Method("String", StringFunc, FALSE)>>],
      Kelvin |-> [AliasedType |-> IntT,
                  Methods |-> <<Method("String", StringFunc, TRUE)>>],
      Any |-> [AliasedType |-> EmptyIface, Methods |-> <<>>],
      Stringer |-> [AliasedType |-> StringerIface, Methods |-> <<>>],
      IntPtr |-> [AliasedType |-> PointerType(IntT), Methods |-> <<>>],
      Ints |-> [AliasedType |-> SliceType(IntT), Methods |-> <<>>] ]

\* Type.Kind
Kind(t) == t.kind

\* Type.Known: true unless UNKNOWN.
Known(t) == t.kind # "UNKNOWN"

\* The decimal string of an array size.
SizeString(n) == CASE n = 0 -> "0" [] n = 1 -> "1" [] n = 2 -> "2" [] OTHER -> "n"

\* Type.String: the canonical string of a type.
RECURSIVE TypeString(_)
RECURSIVE TypeListString(_)
TypeListString(ts) ==
    IF ts = <<>> THEN ""
    ELSE IF Len(ts) = 1 THEN TypeString(ts[1])
    ELSE TypeString(ts[1]) \o ", " \o TypeListString(Tail(ts))

RECURSIVE MethodListString(_)
MethodListString(ms) ==
    IF ms = <<>> THEN ""
    ELSE ms[1].name \o " " \o TypeString(ms[1].typ) \o "; " \o MethodListString(Tail(ms))

TypeString(t) ==
    CASE t.kind = "UNKNOWN" -> "<unknown>"
      [] t.kind = "SIMPLE" -> t.id
      [] t.kind = "POINTER" -> "*" \o TypeString(t.To)
      [] t.kind = "SLICE" -> "[]" \o TypeString(t.Of)
      [] t.kind = "ARRAY" -> "[" \o SizeString(t.Size) \o "]" \o TypeString(t.Of)
      [] t.kind = "MAP" -> "map[" \o TypeString(t.By) \o "]" \o TypeString(t.Of)
      [] t.kind = "CHAN" ->
            (CASE t.Dir = CHAN_DIR_SEND -> "chan<- "
               [] t.Dir = CHAN_DIR_RECEIVE -> "<-chan "
               [] OTHER -> "chan ") \o TypeString(t.Of)
      [] t.kind = "FUNC" ->
            "func(" \o TypeListString(t.Args) \o ")" \o
            (IF t.Results = <<>> THEN "" ELSE " " \o TypeListString(t.Results))
      [] t.kind = "TUPLE" -> "(" \o TypeListString(t.Members) \o ")"
      [] t.kind = "INTERFACE" -> "interface{" \o MethodListString(t.Methods) \o "}"
      [] t.kind = "CUSTOM" -> t.Name

\* CustomType.RootType: the aliased type, unwrapped while it is named.
RECURSIVE CustomRootType(_)
CustomRootType(t) ==
    LET aliased == TypeDecls[t.Name].AliasedType
    IN  IF aliased.kind = "CUSTOM" THEN CustomRootType(aliased) ELSE aliased

IsBoolAssignable(t) == t.kind = "SIMPLE" /\ t.id = "bool"
IsTypeInt(t) == t.kind = "SIMPLE" /\ t.id = "int"
IsTypeNumeric(t) ==
    t.kind = "SIMPLE" /\ t.id \in {"int", "byte", "rune", "float64", "complex128"}
IsTypeFloatKind(t) == t.kind = "SIMPLE" /\ t.id = "float64"
IsTypeComplexType(t) == t.kind = "SIMPLE" /\ t.id = "complex128"

-----------------------------------------------------------------------------
(* The type negotiator, src/unnamed/part_000: the relations between types. *)

\* nonilTyp
nonilTyp(t) == IF t = NilType THEN UnknownType ELSE t

\* RootType
RootType(t) == IF Kind(t) = "CUSTOM" THEN CustomRootType(t) ELSE t

\* UnderlyingType
UnderlyingType(t) == IF Kind(t) = "CUSTOM" THEN TypeDecls[t.Name].AliasedType ELSE t

\* IsNamed
IsNamed(t) == Kind(t) = "CUSTOM" \/ Kind(t) = "SIMPLE"

\* IsUnnamed
IsUnnamed(t) == ~IsNamed(t)

\* IsInterface
IsInterface(t) == Kind(RootType(t)) = "INTERFACE"

SeqElems(q) == {q[i] : i \in 1..Len(q)}

\* Implements
\* Implements without the test of the receiver: a method counts whether or
\* not it is declared on the pointer.
ImplementsAnyReceiver(iface, value) ==
    LET i == RootType(iface)
        ptr == Kind(value) = "POINTER"
        unwrapped == IF ptr THEN value.To ELSE value
        valueMethods ==
            CASE Kind(unwrapped) = "CUSTOM" -> TypeDecls[unwrapped.Name].Methods
              [] Kind(unwrapped) = "INTERFACE" -> unwrapped.Methods
              [] OTHER -> <<>>
    IN  \A imet \in SeqElems(i.Methods) :
            \E met \in SeqElems(valueMethods) :
                /\ met.name = imet.name
                /\ TypeString(met.typ) = TypeString(imet.typ)

Implements(iface, value) ==
    LET i == RootType(iface)
        ptr == Kind(value) = "POINTER"
        unwrapped == IF ptr THEN value.To ELSE value
        valueMethods ==
            CASE Kind(unwrapped) = "CUSTOM" -> TypeDecls[unwrapped.Name].Methods
              [] Kind(unwrapped) = "INTERFACE" -> unwrapped.Methods
              [] OTHER -> <<>>
    IN  \A imet \in SeqElems(i.Methods) :
            \E met \in SeqElems(valueMethods) :
                /\ met.name = imet.name
                /\ met.PtrReceiver = ptr
                /\ TypeString(met.typ) = TypeString(imet.typ)

\* IsAssignable
IsAssignable(to, what) ==
    IF IsInterface(to) THEN Implements(to, what)
    ELSE IF IsNamed(to) /\ IsNamed(what) THEN TypeString(to) = TypeString(what)
    ELSE TypeString(UnderlyingType(to)) = TypeString(UnderlyingType(what))

\* firstKnown: the first known type of a list, or nil.
RECURSIVE firstKnown(_)
firstKnown(types) ==
    IF types = <<>> THEN NilType
    ELSE IF Known(types[1]) THEN types[1]
    ELSE firstKnown(Tail(types))

\* AreComparable
\* AreComparable asking for assignability in one direction only.
AreComparableOneWay(t1, t2) ==
    IF Kind(t1) = "UNKNOWN" \/ Kind(t2) = "UNKNOWN" THEN FALSE
    ELSE IF ~IsAssignable(t1, t2) THEN FALSE
    ELSE TRUE

AreComparable(t1, t2) ==
    IF Kind(t1) = "UNKNOWN" \/ Kind(t2) = "UNKNOWN" THEN FALSE
    ELSE IF ~IsAssignable(t1, t2) \/ ~IsAssignable(t2, t1) THEN FALSE
    ELSE TRUE

-----------------------------------------------------------------------------
(* The AST the negotiator walks. An expression is a record; a node that    *)
(* records a negotiated type has the field typ, nil until a type is set.   *)
(* Identifiers are bound already: an Ident names a Variable, whose Type is *)
(* looked up in vars, or a type declaration.                               *)

BasicLit(token) == [node |-> "BasicLit", token |-> token, typ |-> NilType]
NilExpr == [node |-> "NilExpr", typ |-> NilType]
\* NewBlankExpr()
NewBlankExpr == [node |-> "BlankExpr"]
Ident(name, object) == [node |-> "Ident", name |-> name, object |-> object]
TypeExpr(t) == [node |-> "TypeExpr", typ |-> t]
UnaryOp(op, right) == [node |-> "UnaryOp", op |-> op, Right |-> right, typ |-> NilType]
BinaryOp(op, left, right) == [node |-> "BinaryOp", op |-> op, Left |-> left, Right |-> right]
FuncCallExpr(left, args) == [node |-> "FuncCallExpr", Left |-> left, Args |-> args]
ArrayExpr(left, index) ==
    [node |-> "ArrayExpr", Left |-> left, Index |-> index, typ |-> NilType]
SliceExpr(from, to) == [node |-> "SliceExpr", From |-> from, To |-> to]
TypeAssertion(left, right, forSwitch) ==
    [node |-> "TypeAssertion", Left |-> left, Right |-> TypeExpr(right),
     ForSwitch |-> forSwitch, typ |-> NilType]
CompoundLit(kind, elems) ==
    [node |-> "CompoundLit", kind |-> kind, elems |-> elems, typ |-> NilType]

\* Token.IsCompOp
IsCompOp(op) ==
    op \in {"TOKEN_EQUALS", "TOKEN_NEQUALS", "TOKEN_LT", "TOKEN_GT",
            "TOKEN_EQ_LT", "TOKEN_EQ_GT"}

\* Token.IsOrderOp
IsOrderOp(op) == op \in {"TOKEN_LT", "TOKEN_GT", "TOKEN_EQ_LT", "TOKEN_EQ_GT"}

\* Token.IsLogicalOp
IsLogicalOp(op) == op \in {"TOKEN_AND", "TOKEN_OR"}

\* The unary operators that pass the operand's type through.
IsTransparentOp(op) == op \in {"TOKEN_PLUS", "TOKEN_MINUS", "TOKEN_SHR", "TOKEN_SHL"}


\* ArrayExpr.baseTypesOfContainer
baseTypesOfContainer(containerType) ==
    LET root == RootType(containerType)
        no == [ok |-> FALSE, key |-> UnknownType, value |-> UnknownType]
    IN  CASE Kind(root) = "MAP" -> [ok |-> TRUE, key |-> root.By, value |-> root.Of]
          [] Kind(root) = "SLICE" -> [ok |-> TRUE, key |-> IntT, value |-> root.Of]
          [] Kind(root) = "ARRAY" -> [ok |-> TRUE, key |-> IntT, value |-> root.Of]
          [] Kind(root) = "SIMPLE" ->
                IF root.id = "string"
                THEN [ok |-> TRUE, key |-> IntT, value |-> SimpleType("byte")]
                ELSE no
          [] Kind(root) = "POINTER" ->
                IF Kind(root.To) = "ARRAY"
                THEN [ok |-> TRUE, key |-> IntT, value |-> root.To.Of]
                ELSE no
          [] OTHER -> no

\* ExprToTypeName: whether an expression is a type name, and the type.
RECURSIVE ExprToTypeName(_)
ExprToTypeName(e) ==
    CASE e.node = "TypeExpr" -> [t |-> e.typ, ok |-> TRUE]
      [] e.node = "UnaryOp" ->
            LET sub == ExprToTypeName(e.Right)
            IN  IF sub.ok THEN [t |-> PointerType(sub.t), ok |-> TRUE]
                ELSE [t |-> NilType, ok |-> FALSE]
      [] e.node = "Ident" ->
            IF e.object = "OBJECT_TYPE"
            THEN [t |-> CustomType(e.name), ok |-> TRUE]
            ELSE [t |-> NilType, ok |-> FALSE]
      [] OTHER -> [t |-> NilType, ok |-> FALSE]

\* The walks over the tree call one another; every such call goes through
\* Invoke, which hands it to the operator of that name.
RECURSIVE Invoke(_, _)
callTypeOf(a, b) == Invoke("TypeOf", <<a, b>>)
callIsAssignable(a, b) == Invoke("IsAssignable", <<a, b>>)
callGuessType(a, b) == Invoke("GuessType", <<a, b>>)
callApplyType(a, b, c) == Invoke("ApplyType", <<a, b, c>>)
callGuessListLike(a, b, c, d) == Invoke("GuessListLike", <<a, b, c, d>>)
callGuessMapLike(a, b, c, d, e) == Invoke("GuessMapLike", <<a, b, c, d, e>>)
callApplyEach(a, b, c, d) == Invoke("ApplyEach", <<a, b, c, d>>)
callNegotiateExprType(a, b, c) == Invoke("NegotiateExprType", <<a, b, c>>)
callNegotiateTupleUnpackAssign(a, b, c, d) ==
    Invoke("NegotiateTupleUnpackAssign", <<a, b, c, d>>)
callNegotiateArgs(a, b, c, d) == Invoke("NegotiateArgs", <<a, b, c, d>>)
callleftExprType(a, b) == Invoke("leftExprType", <<a, b>>)
callapplyTypeSliceExpr(a, b, c) == Invoke("applyTypeSliceExpr", <<a, b, c>>)
callapplyTypeForComparisonOp(a, b, c) ==
    Invoke("applyTypeForComparisonOp", <<a, b, c>>)
callapplyTypeToAsserted(a, b, c) == Invoke("applyTypeToAsserted", <<a, b, c>>)
callCheckTypes(a, b) == Invoke("CheckTypes", <<a, b>>)

\* The part of IsConvertable that works on the type of the expression.
IsTypeConvertable(wt, to) ==
    \/ callIsAssignable(to, wt)
    \/ TypeString(UnderlyingType(to)) = TypeString(UnderlyingType(wt))
    \/ /\ Kind(to) = "POINTER"
       /\ Kind(wt) = "POINTER"
       /\ TypeString(UnderlyingType(wt.To)) = TypeString(UnderlyingType(to.To))

\* Type() of every expression kind, under the variables' types vs.
TypeOf(e, vs) ==
    CASE e.node = "BasicLit" -> nonilTyp(e.typ)
      [] e.node = "NilExpr" -> nonilTyp(e.typ)
      [] e.node = "BlankExpr" -> UnknownType
      [] e.node = "CompoundLit" -> nonilTyp(e.typ)
      [] e.node = "TypeExpr" -> e.typ
      [] e.node = "Ident" -> IF e.object = "OBJECT_VAR" THEN vs[e.name] ELSE NilType
      [] e.node = "TypeAssertion" ->
            IF e.typ # NilType THEN e.typ
            ELSE IF e.ForSwitch THEN UnknownType
            ELSE nonilTyp(e.Right.typ)
      [] e.node = "ArrayExpr" ->
            IF e.typ # NilType THEN e.typ
            ELSE LET base == baseTypesOfContainer(callTypeOf(e.Left, vs))
                 IN  IF ~base.ok THEN UnknownType
                     ELSE IF e.Index.node = "SliceExpr" THEN SliceType(base.value)
                     ELSE base.value
      [] e.node = "BinaryOp" -> IF IsCompOp(e.op) THEN BoolT ELSE callTypeOf(e.Left, vs)
      [] e.node = "UnaryOp" ->
            IF e.typ # NilType THEN e.typ
            ELSE IF IsTransparentOp(e.op) THEN callTypeOf(e.Right, vs)
            ELSE IF e.op = "TOKEN_MUL" THEN
                LET subType == callTypeOf(e.Right, vs)
                IN  IF Kind(subType) # "POINTER" THEN UnknownType ELSE subType.To
            ELSE IF e.op = "TOKEN_AMP" THEN PointerType(callTypeOf(e.Right, vs))
            ELSE \* TOKEN_SEND
                LET rootTyp == RootType(callTypeOf(e.Right, vs))
                IN  IF Kind(rootTyp) # "CHAN" THEN UnknownType ELSE rootTyp.Of
      [] e.node = "FuncCallExpr" ->
            LET cast == ExprToTypeName(e.Left) IN
            IF cast.ok THEN
                IF IsTypeConvertable(callTypeOf(e.Args[1], vs), cast.t) THEN cast.t
                ELSE UnknownType
            ELSE LET calleeType == UnderlyingType(callTypeOf(e.Left, vs)) IN
                IF Kind(calleeType) # "FUNC" THEN UnknownType
                ELSE IF Len(calleeType.Results) = 0 THEN UnknownType
                ELSE IF Len(calleeType.Results) = 1 THEN calleeType.Results[1]
                ELSE TupleType(calleeType.Results)

\* IsConvertable
IsConvertable(what, to, vs) == IsTypeConvertable(callTypeOf(what, vs), to)

\* The outcome of GuessType: the guess, the expression as the walk left it,
\* and Panic when the walk ended in a panic.
Guessed(ok, typ, e) == [ok |-> ok, typ |-> typ, e |-> e, err |-> Nil]
GuessPanic(e) == [ok |-> FALSE, typ |-> NilType, e |-> e, err |-> Panic]

\* The outcome of ApplyType: the expression as the walk left it and the error.
Applied(e, err) == [e |-> e, err |-> err]

\* BasicLit.GuessType
BasicLitGuess(token) ==
    CASE token = "TOKEN_STR" -> StringT
      [] token = "TOKEN_INT" -> IntT
      [] token = "TOKEN_FLOAT" -> Float64T
      [] token = "TOKEN_IMAG" -> SimpleType("complex128")
      [] token \in {"TOKEN_TRUE", "TOKEN_FALSE"} -> BoolT
      [] token = "TOKEN_RUNE" -> SimpleType("rune")
      [] OTHER -> NilType

\* The cases of BasicLit.ApplyType; each falls through to the assignment.
BasicLitFits(token, actualType) ==
    \/ token = "TOKEN_STR" /\ actualType.id = "string"
    \/ token = "TOKEN_INT" /\ IsTypeNumeric(actualType)
    \/ token = "TOKEN_RUNE" /\ IsTypeNumeric(actualType)
    \/ token = "TOKEN_FLOAT"
            /\ (IsTypeFloatKind(actualType) \/ IsTypeComplexType(actualType))
    \/ token = "TOKEN_IMAG" /\ IsTypeComplexType(actualType)
    \/ token \in {"TOKEN_TRUE", "TOKEN_FALSE"} /\ actualType.id = "bool"

\* AreOrdered; it panics on comparable operands that are not both SIMPLE.
AreOrdered(t1, t2) ==
    IF ~AreComparable(t1, t2) THEN [ok |-> FALSE, err |-> Nil]
    ELSE IF Kind(t1) = "SIMPLE" /\ Kind(t2) = "SIMPLE"
    THEN [ok |-> t1.id = t2.id /\ t1.id \in {"int", "string"}, err |-> Nil]
    ELSE [ok |-> FALSE, err |-> Panic]

\* firstErr
firstErr(errors) ==
    IF \E i \in 1..Len(errors) : errors[i] # Nil
    THEN errors[CHOOSE i \in 1..Len(errors) :
                    errors[i] # Nil /\ \A j \in 1..(i - 1) : errors[j] = Nil]
    ELSE Nil

RECURSIVE UnpackMembers(_, _, _)

\* The loop of CompoundLit.GuessType over a list-like literal, from element i
\* on, with the element type typ found so far.
GuessListLike(elems, i, typ, vs) ==
    IF i > Len(elems) THEN Guessed(TRUE, SliceType(typ), elems)
    ELSE LET g == callGuessType(elems[i], vs)
             now == [elems EXCEPT ![i] = g.e]
             t == IF typ = NilType THEN nonilTyp(g.typ) ELSE typ
         IN  IF g.err # Nil THEN GuessPanic(now)
             ELSE IF ~g.ok THEN Guessed(FALSE, NilType, now)
             ELSE IF TypeString(t) # TypeString(g.typ) THEN Guessed(FALSE, NilType, now)
             ELSE callGuessListLike(now, i + 1, t, vs)

\* The loop of CompoundLit.GuessType over a map-like literal.
GuessMapLike(elems, i, keyType, valueType, vs) ==
    IF i > Len(elems) THEN Guessed(TRUE, MapType(keyType, valueType), elems)
    ELSE LET g == callGuessType(elems[i], vs)
             now == [elems EXCEPT ![i] = g.e]
             isKey == i % 2 = 1
             k == IF isKey /\ keyType = NilType THEN nonilTyp(g.typ) ELSE keyType
             v == IF ~isKey /\ valueType = NilType THEN nonilTyp(g.typ) ELSE valueType
         IN  IF g.err # Nil THEN GuessPanic(now)
             ELSE IF ~g.ok THEN Guessed(FALSE, NilType, now)
             ELSE IF TypeString(IF isKey THEN k ELSE v) # TypeString(g.typ)
             THEN Guessed(FALSE, NilType, now)
             ELSE callGuessMapLike(now, i + 1, k, v, vs)

\* GuessType of every expression kind. BinaryOp.GuessType applies types to
\* its operands, so the expression comes back with the guess.
GuessType(e, vs) ==
    CASE e.node = "BasicLit" ->
            LET t == BasicLitGuess(e.token)
            IN  Guessed(t # NilType, t, e)
      [] e.node = "NilExpr" -> Guessed(FALSE, UnknownType, e)
      [] e.node \in {"BlankExpr", "Ident", "TypeExpr", "TypeAssertion"} ->
            Guessed(FALSE, NilType, e)
      [] e.node = "FuncCallExpr" ->
            LET cast == ExprToTypeName(e.Left)
            IN  IF cast.ok THEN Guessed(TRUE, cast.t, e) ELSE Guessed(FALSE, NilType, e)
      [] e.node = "ArrayExpr" ->
            LET g == callGuessType(e.Left, vs)
                now == [e EXCEPT !.Left = g.e]
                base == baseTypesOfContainer(g.typ)
            IN  IF g.err # Nil THEN GuessPanic(now)
                ELSE IF ~g.ok THEN Guessed(FALSE, UnknownType, now)
                ELSE IF ~base.ok THEN Guessed(FALSE, base.value, now)
                ELSE IF e.Index.node = "SliceExpr"
                THEN Guessed(TRUE, SliceType(base.value), now)
                ELSE Guessed(TRUE, base.value, now)
      [] e.node = "CompoundLit" ->
            IF e.kind = "COMPOUND_LISTLIKE" THEN
                LET g == callGuessListLike(e.elems, 1, NilType, vs)
                IN  [g EXCEPT !.e = [e EXCEPT !.elems = g.e]]
            ELSE IF e.kind = "COMPOUND_MAPLIKE" THEN
                LET g == callGuessMapLike(e.elems, 1, NilType, NilType, vs)
                IN  [g EXCEPT !.e = [e EXCEPT !.elems = g.e]]
            ELSE Guessed(FALSE, NilType, e)
      [] e.node = "UnaryOp" ->
            LET g == callGuessType(e.Right, vs)
                now == [e EXCEPT !.Right = g.e]
            IN  IF g.err # Nil THEN GuessPanic(now)
                ELSE IF IsTransparentOp(e.op) THEN Guessed(g.ok, g.typ, now)
                ELSE IF ~g.ok THEN Guessed(FALSE, NilType, now)
                ELSE IF e.op = "TOKEN_MUL" THEN
                    IF Kind(g.typ) # "POINTER" THEN Guessed(FALSE, NilType, now)
                    ELSE Guessed(TRUE, g.typ.To, now)
                ELSE IF e.op = "TOKEN_AMP" THEN Guessed(TRUE, PointerType(g.typ), now)
                ELSE \* TOKEN_SEND; ChanType{Of: typ} has the zero direction
                    Guessed(TRUE, ChanType(g.typ, CHAN_DIR_BIDI), now)
      [] e.node = "BinaryOp" ->
            LET l == callGuessType(e.Left, vs)
                r == callGuessType(e.Right, vs)
                both == [e EXCEPT !.Left = l.e, !.Right = r.e]
                \* case leftOk: the right operand takes the left guess
                ar == callApplyType(r.e, l.typ, vs)
                afterR == [both EXCEPT !.Right = ar.e]
                \* case rightOk, reached by fallthrough as well
                al == callApplyType(afterR.Left, r.typ, vs)
                afterL == [afterR EXCEPT !.Left = al.e]
                al0 == callApplyType(l.e, r.typ, vs)
                afterL0 == [both EXCEPT !.Left = al0.e]
            IN  IF l.err # Nil THEN GuessPanic([e EXCEPT !.Left = l.e])
                ELSE IF r.err # Nil THEN GuessPanic(both)
                ELSE IF l.ok /\ r.ok /\ TypeString(l.typ) = TypeString(r.typ)
                THEN Guessed(TRUE, l.typ, both)
                ELSE IF l.ok THEN
                    IF ar.err = Panic THEN GuessPanic(afterR)
                    ELSE IF ar.err = Nil THEN Guessed(TRUE, l.typ, afterR)
                    ELSE IF al.err = Panic THEN GuessPanic(afterL)
                    ELSE IF al.err = Nil THEN Guessed(TRUE, r.typ, afterL)
                    ELSE Guessed(FALSE, NilType, afterL)
                ELSE IF r.ok THEN
                    IF al0.err = Panic THEN GuessPanic(afterL0)
                    ELSE IF al0.err = Nil THEN Guessed(TRUE, r.typ, afterL0)
                    ELSE Guessed(FALSE, NilType, afterL0)
                ELSE Guessed(FALSE, NilType, both)

\* The loops of CompoundLit.ApplyType: elems[i] takes types[i], in order,
\* up to the first error.
ApplyEach(elems, types, i, vs) ==
    IF i > Len(elems) THEN Applied(elems, Nil)
    ELSE LET a == callApplyType(elems[i], types[i], vs)
             now == [elems EXCEPT ![i] = a.e]
         IN  IF a.err # Nil THEN Applied(now, a.err)
             ELSE callApplyEach(now, types, i + 1, vs)

\* ArrayExpr.leftExprType: the container's type, guessed when unknown.
leftExprType(e, vs) ==
    LET lt == callTypeOf(e.Left, vs)
        g == callGuessType(e.Left, vs)
        now == [e EXCEPT !.Left = g.e]
    IN  IF Known(lt) THEN [t |-> lt, e |-> e, err |-> Nil]
        ELSE IF g.err # Nil THEN [t |-> UnknownType, e |-> now, err |-> Panic]
        ELSE IF ~g.ok THEN [t |-> UnknownType, e |-> now, err |-> Nil]
        ELSE [t |-> g.typ, e |-> now, err |-> Nil]

\* ArrayExpr.applyTypeSliceExpr
applyTypeSliceExpr(e, typ, vs) ==
    LET lx == callleftExprType(e, vs)
        base == baseTypesOfContainer(lx.t)
        \* the error message asks for leftExprType once more
        lx2 == callleftExprType(lx.e, vs)
        af == callApplyType(lx.e.Index.From, IntT, vs)
        e1 == [lx.e EXCEPT !.Index.From = af.e]
        at == callApplyType(e1.Index.To, IntT, vs)
        e2 == [e1 EXCEPT !.Index.To = at.e]
    IN  IF lx.err # Nil THEN Applied(lx.e, Panic)
        ELSE IF ~base.ok THEN Applied(lx.e, "Couldn't infer cotainer type")
        ELSE IF ~IsTypeInt(base.key) THEN
            Applied(lx2.e, IF lx2.err # Nil THEN Panic
                           ELSE "Type doesn't support slice expressions")
        ELSE IF af.err = Panic THEN Applied(e1, Panic)
        ELSE IF at.err = Panic THEN Applied(e2, Panic)
        ELSE IF firstErr(<<af.err, at.err>>) # Nil
        THEN Applied(e2, firstErr(<<af.err, at.err>>))
        ELSE IF typ = NilType THEN Applied(e2, Panic)
        ELSE IF ~callIsAssignable(typ, SliceType(base.value))
        THEN Applied(e2, "Types are not assignable")
        ELSE Applied(e2, Nil)

\* BinaryOp.applyTypeForComparisonOp
applyTypeForComparisonOp(e, typ, vs) ==
    LET lt == callTypeOf(e.Left, vs)
        gl == IF Known(lt) THEN Guessed(FALSE, NilType, e.Left)
              ELSE callGuessType(e.Left, vs)
        t1 == IF gl.ok THEN gl.typ ELSE lt
        rt == callTypeOf(e.Right, vs)
        gr == IF Known(rt) THEN Guessed(FALSE, NilType, e.Right)
              ELSE callGuessType(e.Right, vs)
        t2 == IF gr.ok THEN gr.typ ELSE rt
        e1 == [e EXCEPT !.Left = gl.e, !.Right = gr.e]
        ar == callApplyType(gr.e, t1, vs)
        al == callApplyType(gl.e, t2, vs)
        e2 == CASE Known(t1) /\ ~Known(t2) -> [e1 EXCEPT !.Right = ar.e]
                [] ~Known(t1) /\ Known(t2) -> [e1 EXCEPT !.Left = al.e]
                [] OTHER -> e1
        err == CASE Known(t1) /\ ~Known(t2) -> ar.err
                 [] ~Known(t1) /\ Known(t2) -> al.err
                 [] ~Known(t1) /\ ~Known(t2) ->
                        "Couldn't infer types of left and right operands"
                 [] OTHER -> Nil
        u1 == IF ~Known(t1) /\ Known(t2) THEN t2 ELSE t1
        u2 == IF Known(t1) /\ ~Known(t2) THEN t1 ELSE t2
        ordered == AreOrdered(u1, u2)
        fl == callApplyType(e2.Left, u1, vs)
        e3 == [e2 EXCEPT !.Left = fl.e]
        fr == callApplyType(e3.Right, u2, vs)
        e4 == [e3 EXCEPT !.Right = fr.e]
    IN  IF typ = NilType THEN Applied(e, Panic)
        ELSE IF ~IsBoolAssignable(typ)
        THEN Applied(e, "Comparison operators return bools")
        ELSE IF gl.err # Nil THEN Applied([e EXCEPT !.Left = gl.e], Panic)
        ELSE IF gr.err # Nil THEN Applied(e1, Panic)
        ELSE IF err # Nil THEN Applied(e2, err)
        ELSE IF IsOrderOp(e.op) /\ ordered.err # Nil THEN Applied(e2, Panic)
        ELSE IF IsOrderOp(e.op) /\ ~ordered.ok
        THEN Applied(e2, "Operands can't be ordered")
        ELSE IF ~IsOrderOp(e.op) /\ ~AreComparable(u1, u2)
        THEN Applied(e2, "Types aren't comparable")
        ELSE IF fl.err = Panic THEN Applied(e3, Panic)
        ELSE IF fr.err = Panic THEN Applied(e4, Panic)
        ELSE Applied(e4, firstErr(<<fl.err, fr.err>>))

\* TypeAssertion.ApplyType, lines 737-750: the asserted expression takes the
\* asserted type when its own is unknown, or else its guess.
applyTypeToAsserted(te, typ, vs) ==
    LET a1 == callApplyType(te, typ, vs)
        g == callGuessType(a1.e, vs)
        a2 == callApplyType(g.e, g.typ, vs)
    IN  IF Known(callTypeOf(te, vs)) THEN Applied(te, Nil)
        ELSE IF a1.err = Nil \/ a1.err = Panic THEN a1
        ELSE IF g.err # Nil THEN Applied(g.e, Panic)
        ELSE IF ~g.ok THEN Applied(g.e, a1.err)
        ELSE a2

\* The element types the loops of CompoundLit.ApplyType hand out.
ElemTypes(rootTyp, n) ==
    [i \in 1..n |->
        IF Kind(rootTyp) = "MAP"
        THEN (IF i % 2 = 1 THEN rootTyp.By ELSE rootTyp.Of)
        ELSE rootTyp.Of]

\* Whether CompoundLit.ApplyType walks the elements for this root type.
\* The type universe has no struct types, so KIND_STRUCT is left out.
CompoundWalks(kind, rootTyp, n) ==
    \/ Kind(rootTyp) = "SLICE" /\ kind = "COMPOUND_LISTLIKE"
    \/ Kind(rootTyp) = "ARRAY" /\ kind = "COMPOUND_LISTLIKE" /\ n = rootTyp.Size
    \/ Kind(rootTyp) = "MAP" /\ kind = "COMPOUND_MAPLIKE"

\* Whether an empty literal fits the root type.
CompoundEmptyFits(rootTyp) ==
    \/ Kind(rootTyp) \in {"SLICE", "MAP"}
    \/ Kind(rootTyp) = "ARRAY" /\ rootTyp.Size = 0

\* ApplyType of every expression kind.
ApplyType(e, typ, vs) ==
    CASE e.node = "BlankExpr" -> Applied(e, Nil)
      [] e.node = "BasicLit" ->
            IF typ = NilType THEN Applied(e, Panic)
            ELSE IF Kind(RootType(typ)) # "SIMPLE"
            THEN Applied(e, "Can't use this literal for type")
            ELSE IF BasicLitFits(e.token, RootType(typ))
            THEN Applied([e EXCEPT !.typ = typ], Nil)
            ELSE Applied(e, "Can't use this literal for this type")
      [] e.node = "NilExpr" ->
            IF typ = NilType THEN Applied(e, Panic)
            ELSE IF Kind(RootType(typ)) \in
                        {"POINTER", "INTERFACE", "MAP", "SLICE", "FUNC"}
            THEN Applied([e EXCEPT !.typ = typ], Nil)
            ELSE Applied(e, "Type can't be set to nil")
      [] e.node = "Ident" ->
            IF e.object # "OBJECT_VAR"
            THEN Applied(e, "Identifier is not a variable")
            ELSE IF typ = NilType THEN Applied(e, Panic)
            ELSE IF ~callIsAssignable(typ, vs[e.name])
            THEN Applied(e, "Identifier is of another type")
            ELSE Applied(e, Nil)
      [] e.node = "TypeExpr" ->
            IF typ = NilType THEN Applied(e, Panic)
            ELSE IF TypeString(e.typ) # TypeString(typ)
            THEN Applied(e, "Different types")
            ELSE Applied(e, Nil)
      [] e.node = "CompoundLit" ->
            LET rootTyp == RootType(typ)
                walk == callApplyEach(e.elems, ElemTypes(rootTyp, Len(e.elems)), 1, vs)
                walked == [e EXCEPT !.elems = walk.e]
                no == "Can't use a compound literal to initialize type"
            IN  IF typ = NilType THEN Applied(e, Panic)
                ELSE IF e.kind = "COMPOUND_EMPTY" THEN
                    IF CompoundEmptyFits(rootTyp)
                    THEN Applied([e EXCEPT !.typ = typ], Nil)
                    ELSE Applied(e, no)
                ELSE IF ~CompoundWalks(e.kind, rootTyp, Len(e.elems))
                THEN Applied(e, no)
                ELSE IF walk.err # Nil THEN Applied(walked, walk.err)
                ELSE Applied([walked EXCEPT !.typ = typ], Nil)
      [] e.node = "UnaryOp" ->
            LET to == IF IsTransparentOp(e.op) THEN typ
                      ELSE IF e.op = "TOKEN_MUL" THEN PointerType(typ)
                      ELSE UnderlyingType(typ).To
                a == callApplyType(e.Right, to, vs)
                rootTyp == RootType(callTypeOf(e.Right, vs))
                isTuple == Kind(typ) = "TUPLE"
                recorded == IF isTuple THEN [e EXCEPT !.typ = typ] ELSE e
                unwrapped == IF isTuple THEN typ.Members[1] ELSE typ
            IN  IF IsTransparentOp(e.op) \/ e.op = "TOKEN_MUL"
                THEN Applied([e EXCEPT !.Right = a.e], a.err)
                ELSE IF e.op = "TOKEN_AMP" THEN
                    IF typ = NilType THEN Applied(e, Panic)
                    ELSE IF Kind(UnderlyingType(typ)) # "POINTER"
                    THEN Applied(e, "Not a pointer type")
                    ELSE Applied([e EXCEPT !.Right = a.e], a.err)
                ELSE \* TOKEN_SEND
                    IF Kind(rootTyp) # "CHAN" THEN Applied(e, "Type is not a channel")
                    ELSE IF rootTyp.Dir = CHAN_DIR_SEND
                    THEN Applied(e, "Type is a send-only channel")
                    ELSE IF typ = NilType THEN Applied(e, Panic)
                    \* the two checks on the tuple drop their errors; Members[1]
                    \* is read all the same
                    ELSE IF isTuple /\ Len(typ.Members) < 2 THEN Applied(e, Panic)
                    ELSE IF ~callIsAssignable(rootTyp.Of, unwrapped)
                    THEN Applied(recorded, "Types are not assignable")
                    ELSE Applied(recorded, Nil)
      [] e.node = "BinaryOp" ->
            LET al == callApplyType(e.Left, typ, vs)
                e1 == [e EXCEPT !.Left = al.e]
                ar == callApplyType(e.Right, typ, vs)
            IN  IF IsCompOp(e.op) THEN callapplyTypeForComparisonOp(e, typ, vs)
                ELSE IF IsLogicalOp(e.op) /\ typ = NilType THEN Applied(e, Panic)
                ELSE IF IsLogicalOp(e.op) /\ ~IsBoolAssignable(typ)
                THEN Applied(e, "Logical operators return bools")
                ELSE IF al.err # Nil THEN Applied(e1, al.err)
                ELSE Applied([e1 EXCEPT !.Right = ar.e], ar.err)
      [] e.node = "TypeAssertion" ->
            LET isTuple == Kind(typ) = "TUPLE"
                recorded == IF isTuple THEN [e EXCEPT !.typ = typ] ELSE e
                unwrapped == IF isTuple THEN typ.Members[1] ELSE typ
                a == callapplyTypeToAsserted(e.Left, unwrapped, vs)
                e1 == [recorded EXCEPT !.Left = a.e]
            IN  IF e.ForSwitch
                THEN Applied(e, "This is only allowed in switch statements")
                ELSE IF typ = NilType THEN Applied(e, Panic)
                ELSE IF isTuple /\ Len(typ.Members) < 2 THEN Applied(e, Panic)
                ELSE IF TypeString(e.Right.typ) # TypeString(unwrapped)
                THEN Applied(recorded, "Different types")
                ELSE IF a.err # Nil THEN Applied(e1, a.err)
                ELSE IF ~IsInterface(callTypeOf(e1.Left, vs))
                THEN Applied(e1, "Invalid type assertion, non-interface on left")
                ELSE IF /\ ~IsInterface(e.Right.typ)
                        /\ ~Implements(callTypeOf(e1.Left, vs), e.Right.typ)
                THEN Applied(e1, "Impossible type assertion")
                ELSE Applied(e1, Nil)
      [] e.node = "ArrayExpr" ->
            LET lx == callleftExprType(e, vs)
                al == callApplyType(lx.e.Left, lx.t, vs)
                e2 == [lx.e EXCEPT !.Left = al.e]
                base == baseTypesOfContainer(lx.t)
                ai == callApplyType(e2.Index, base.key, vs)
                e3 == [e2 EXCEPT !.Index = ai.e]
                isTuple == Kind(typ) = "TUPLE"
                vt == IF isTuple THEN typ.Members[1] ELSE typ
                no == "Coudln't infer container's type"
            IN  IF lx.err # Nil THEN Applied(lx.e, Panic)
                ELSE IF ~Known(lx.t) THEN Applied(lx.e, no)
                ELSE IF al.err # Nil THEN Applied(e2, al.err)
                ELSE IF ~base.ok THEN Applied(e2, no)
                ELSE IF e.Index.node = "SliceExpr" THEN callapplyTypeSliceExpr(e2, typ, vs)
                ELSE IF ai.err # Nil THEN Applied(e3, ai.err)
                ELSE IF typ = NilType THEN Applied(e3, Panic)
                ELSE IF /\ isTuple
                        /\ (Len(typ.Members) # 2 \/ ~IsBoolAssignable(typ.Members[2]))
                THEN Applied(e3, "Second value is bool")
                ELSE IF isTuple /\ Kind(RootType(lx.t)) # "MAP"
                THEN Applied(e3, "Only map index expressions can return extra bool value")
                ELSE IF ~callIsAssignable(vt, base.value)
                THEN Applied(e3, "Type cannot be assigned")
                ELSE Applied([e3 EXCEPT !.typ = typ], Nil)
      [] e.node = "FuncCallExpr" ->
            LET cast == ExprToTypeName(e.Left)
                a == callApplyType(e.Args[1], cast.t, vs)
                e1 == [e EXCEPT !.Args[1] = a.e]
                calleeType == UnderlyingType(callTypeOf(e.Left, vs))
                u == callNegotiateTupleUnpackAssign(TRUE, calleeType.Args, e.Args[1], vs)
                n == callNegotiateArgs(e.Args, calleeType.Args, 1, vs)
            IN  IF cast.ok THEN
                    IF Len(e.Args) # 1
                    THEN Applied(e, "Type conversion takes exactly one argument")
                    \* the error of this ApplyType is ignored
                    ELSE IF a.err = Panic THEN Applied(e1, Panic)
                    ELSE IF ~IsConvertable(e1.Args[1], cast.t, vs)
                    THEN Applied(e1, "Impossible conversion")
                    ELSE IF typ = NilType THEN Applied(e1, Panic)
                    ELSE IF ~callIsAssignable(typ, cast.t) THEN Applied(e1, "Cannot assign")
                    ELSE Applied(e1, Nil)
                ELSE IF Kind(calleeType) # "FUNC"
                THEN Applied(e, "Only functions can be called")
                ELSE IF typ = NilType \/ Kind(typ) = "TUPLE" THEN Applied(e, Panic)
                ELSE IF Len(calleeType.Results) = 0
                THEN Applied(e, "Function doesn't return anything")
                ELSE IF Len(calleeType.Results) > 1
                THEN Applied(e, "Function returns more than one result")
                ELSE IF ~callIsAssignable(calleeType.Results[1], typ)
                THEN Applied(e, "Can't assign")
                ELSE IF Len(calleeType.Args) # Len(e.Args) THEN
                    IF Len(e.Args) = 1
                    THEN Applied([e EXCEPT !.Args[1] = u.rhs], u.err)
                    ELSE Applied(e, "Wrong number of arguments")
                ELSE Applied([e EXCEPT !.Args = n.e], n.err)

\* The outcome of NegotiateExprType: the slot and the value as it left them.
Negotiated(slot, value, err) == [slot |-> slot, value |-> value, err |-> err]

\* NegotiateExprType whose interface case narrows the slot to the guessed
\* type instead of leaving the interface type in it.
NegotiateExprTypeNarrowsSlot(varType, value, vs) ==
    LET slot == nonilTyp(varType)
        known == firstKnown(<<slot, callTypeOf(value, vs)>>)
        g == callGuessType(value, vs)
        typ == IF known = NilType THEN g.typ ELSE known
        v1 == IF known = NilType THEN g.e ELSE value
        g2 == callGuessType(v1, vs)
        narrow == callApplyType(g2.e, g2.typ, vs)
        wide == callApplyType(IF IsInterface(typ) THEN g2.e ELSE v1, typ, vs)
        own == callApplyType(v1, callTypeOf(v1, vs), vs)
    IN  IF known = NilType /\ g.err # Nil THEN Negotiated(slot, g.e, Panic)
        ELSE IF known = NilType /\ (~g.ok \/ ~Known(g.typ))
        THEN Negotiated(slot, g.e, "Too little information to infer types")
        ELSE IF ~Known(callTypeOf(v1, vs)) THEN
            IF IsInterface(typ) /\ g2.err # Nil THEN Negotiated(typ, g2.e, Panic)
            ELSE IF IsInterface(typ) /\ g2.ok THEN
                IF ~callIsAssignable(typ, g2.typ)
                THEN Negotiated(typ, g2.e, "Types are not assignable")
                ELSE Negotiated(g2.typ, narrow.e, narrow.err)
            ELSE Negotiated(typ, wide.e, wide.err)
        ELSE IF ~callIsAssignable(typ, callTypeOf(v1, vs))
        THEN Negotiated(typ, v1, "Types are not assignable")
        ELSE Negotiated(typ, own.e, own.err)

\* NegotiateExprType
NegotiateExprType(varType, value, vs) ==
    LET slot == nonilTyp(varType)
        known == firstKnown(<<slot, callTypeOf(value, vs)>>)
        g == callGuessType(value, vs)
        typ == IF known = NilType THEN g.typ ELSE known
        v1 == IF known = NilType THEN g.e ELSE value
        g2 == callGuessType(v1, vs)
        narrow == callApplyType(g2.e, g2.typ, vs)
        wide == callApplyType(IF IsInterface(typ) THEN g2.e ELSE v1, typ, vs)
        own == callApplyType(v1, callTypeOf(v1, vs), vs)
    IN  IF known = NilType /\ g.err # Nil THEN Negotiated(slot, g.e, Panic)
        ELSE IF known = NilType /\ (~g.ok \/ ~Known(g.typ))
        THEN Negotiated(slot, g.e, "Too little information to infer types")
        ELSE IF ~Known(callTypeOf(v1, vs)) THEN
            IF IsInterface(typ) /\ g2.err # Nil THEN Negotiated(typ, g2.e, Panic)
            ELSE IF IsInterface(typ) /\ g2.ok THEN
                IF ~callIsAssignable(typ, g2.typ)
                THEN Negotiated(typ, g2.e, "Types are not assignable")
                ELSE Negotiated(typ, narrow.e, narrow.err)
            ELSE Negotiated(typ, wide.e, wide.err)
        ELSE IF ~callIsAssignable(typ, callTypeOf(v1, vs))
        THEN Negotiated(typ, v1, "Types are not assignable")
        ELSE Negotiated(typ, own.e, own.err)

\* The loop of FuncCallExpr.ApplyType over the arguments; each negotiates
\* against a copy of the parameter's type.
NegotiateArgs(args, types, i, vs) ==
    IF i > Len(types) THEN Applied(args, Nil)
    ELSE LET n == callNegotiateExprType(types[i], args[i], vs)
             now == [args EXCEPT ![i] = n.value]
         IN  IF n.err # Nil THEN Applied(now, n.err)
             ELSE callNegotiateArgs(now, types, i + 1, vs)

\* The loop of NegotiateTupleUnpackAssign over the slots of the left side.
UnpackMembers(lhs, members, i) ==
    IF i > Len(lhs) THEN [lhs |-> lhs, err |-> Nil]
    \* tuple.Members[i] out of range, or Known() of a nil slot
    ELSE IF i > Len(members) \/ lhs[i] = NilType THEN [lhs |-> lhs, err |-> Panic]
    ELSE IF firstKnown(<<lhs[i], members[i]>>) = NilType
    THEN [lhs |-> lhs, err |-> "Too little information to infer types"]
    ELSE IF ~Known(members[i]) THEN [lhs |-> lhs, err |-> "Unknown type in a tuple"]
    ELSE IF Kind(lhs[i]) = "UNKNOWN"
    THEN UnpackMembers([lhs EXCEPT ![i] = firstKnown(<<lhs[i], members[i]>>)],
                       members, i + 1)
    ELSE IF ~callIsAssignable(lhs[i], members[i])
    THEN [lhs |-> lhs, err |-> "Types aren't assignable"]
    ELSE UnpackMembers(lhs, members, i + 1)

\* NegotiateTupleUnpackAssign: the slots and the right side as it left them.
NegotiateTupleUnpackAssign(onlyFuncCalls, lhsTypes, rhs, vs) ==
    LET rt == callTypeOf(rhs, vs)
        g == IF Known(rt) THEN Guessed(TRUE, rt, rhs) ELSE callGuessType(rhs, vs)
        tuple == TupleType(<<g.typ, BoolT>>)
        a == callApplyType(g.e, tuple, vs)
        fromCall == UnpackMembers(lhsTypes, rt.Members, 1)
        fromPair == UnpackMembers(lhsTypes, tuple.Members, 1)
        out(lhs, r, err) == [lhs |-> lhs, rhs |-> r, err |-> err]
    IN  IF rhs.node = "FuncCallExpr" THEN
            IF Kind(rt) # "TUPLE"
            THEN out(lhsTypes, rhs, "Too few values on the right side")
            ELSE out(fromCall.lhs, rhs, fromCall.err)
        ELSE IF onlyFuncCalls THEN out(lhsTypes, rhs, "Too few values")
        ELSE IF g.err # Nil THEN out(lhsTypes, g.e, Panic)
        ELSE IF ~g.ok \/ ~Known(g.typ)
        THEN out(lhsTypes, g.e,
                 "Couldn't determine type of the right side of the assignment")
        ELSE IF a.err # Nil THEN out(lhsTypes, a.e, a.err)
        ELSE out(fromPair.lhs, a.e, fromPair.err)

-----------------------------------------------------------------------------
(* Statements. A Variable is its name; its Type is kept in the table vs,   *)
(* which a declaration writes through &v.Type. An assignment negotiates    *)
(* against copies of its targets' types.                                   *)

VarDecl(names, inits) == [stmt |-> "VarDecl", Vars |-> names, Inits |-> inits]
VarStmt(decls) == [stmt |-> "VarStmt", Vars |-> decls]
AssignStmt(lhs, rhs) == [stmt |-> "AssignStmt", Lhs |-> lhs, Rhs |-> rhs]
ExprStmt(e) == [stmt |-> "ExprStmt", Expression |-> e]
SendStmt(lhs, rhs) == [stmt |-> "SendStmt", Lhs |-> lhs, Rhs |-> rhs]

\* The outcome of NegotiateTypes: the statement and the table as it left them.
Checked(st, vs, err) == [st |-> st, vs |-> vs, err |-> err]

RECURSIVE WriteTypes(_, _, _, _)
\* The writes through the pointers &v.Type of a declaration's variables.
WriteTypes(vs, names, types, i) ==
    IF i > Len(names) THEN vs
    ELSE WriteTypes([vs EXCEPT ![names[i]] = types[i]], names, types, i + 1)

RECURSIVE eachPair(_, _, _)
\* VarDecl.eachPair with the callback of VarDecl.NegotiateTypes: variable i
\* pairs with initializer i, or with a blank expression when it has none;
\* after the first error the callback does nothing.
eachPair(vd, i, vs) ==
    IF i > Len(vd.Vars) THEN Checked(vd, vs, Nil)
    ELSE LET hasInit == i <= Len(vd.Inits)
             init == IF hasInit THEN vd.Inits[i] ELSE NewBlankExpr
             n == callNegotiateExprType(vs[vd.Vars[i]], init, vs)
             now == IF hasInit THEN [vd EXCEPT !.Inits[i] = n.value] ELSE vd
             written == [vs EXCEPT ![vd.Vars[i]] = n.slot]
         IN  IF n.err # Nil THEN Checked(now, written, n.err)
             ELSE eachPair(now, i + 1, written)

\* VarDecl.NegotiateTypes
VarDeclNegotiateTypes(vd, vs) ==
    LET types == [i \in 1..Len(vd.Vars) |-> vs[vd.Vars[i]]]
        u == callNegotiateTupleUnpackAssign(FALSE, types, vd.Inits[1], vs)
    IN  IF Len(vd.Vars) > 1 /\ Len(vd.Inits) = 1
        THEN Checked([vd EXCEPT !.Inits[1] = u.rhs],
                     WriteTypes(vs, vd.Vars, u.lhs, 1), u.err)
        ELSE eachPair(vd, 1, vs)

RECURSIVE VarStmtNegotiateTypes(_, _, _)
\* VarStmt.NegotiateTypes, from declaration i on.
VarStmtNegotiateTypes(st, i, vs) ==
    IF i > Len(st.Vars) THEN Checked(st, vs, Nil)
    ELSE LET c == VarDeclNegotiateTypes(st.Vars[i], vs)
             now == [st EXCEPT !.Vars[i] = c.st]
         IN  IF c.err # Nil THEN Checked(now, c.vs, c.err)
             ELSE VarStmtNegotiateTypes(now, i + 1, c.vs)

RECURSIVE AssignPairs(_, _, _)
\* The loop of AssignStmt.NegotiateTypes over the pairs.
AssignPairs(as, i, vs) ==
    IF i > Len(as.Lhs) THEN Checked(as, vs, Nil)
    ELSE LET n == callNegotiateExprType(callTypeOf(as.Lhs[i], vs), as.Rhs[i], vs)
             now == [as EXCEPT !.Rhs[i] = n.value]
         IN  IF n.err # Nil THEN Checked(now, vs, n.err)
             ELSE AssignPairs(now, i + 1, vs)

\* AssignStmt.NegotiateTypes
AssignStmtNegotiateTypes(as, vs) ==
    LET types == [i \in 1..Len(as.Lhs) |-> callTypeOf(as.Lhs[i], vs)]
        u == callNegotiateTupleUnpackAssign(FALSE, types, as.Rhs[1], vs)
    IN  IF Len(as.Lhs) # Len(as.Rhs) THEN
            IF Len(as.Rhs) = 1
            THEN Checked([as EXCEPT !.Rhs[1] = u.rhs], vs, u.err)
            ELSE Checked(as, vs,
                    "Different number of items on the left and right hand side")
        ELSE AssignPairs(as, 1, vs)

\* ExprStmt.NegotiateTypes
ExprStmtNegotiateTypes(es, vs) ==
    LET n == callNegotiateExprType(UnknownType, es.Expression, vs)
    IN  Checked([es EXCEPT !.Expression = n.value], vs, n.err)

\* SendStmt.NegotiateTypes
\* SendStmt.NegotiateTypes without the test of the channel's direction.
SendStmtAnyDirection(ls, vs) ==
    LET l == callNegotiateExprType(UnknownType, ls.Lhs, vs)
        s1 == [ls EXCEPT !.Lhs = l.value]
        r == callNegotiateExprType(UnknownType, ls.Rhs, vs)
        s2 == [s1 EXCEPT !.Rhs = r.value]
        lroot == RootType(l.slot)
    IN  IF l.err # Nil THEN Checked(s1, vs, l.err)
        ELSE IF r.err # Nil THEN Checked(s2, vs, r.err)
        ELSE IF Kind(lroot) # "CHAN" THEN Checked(s2, vs, "Not a chan used for sending")
        ELSE IF ~callIsAssignable(lroot.Of, r.slot)
        THEN Checked(s2, vs, "Send value has to be assignable to channel's base type")
        ELSE Checked(s2, vs, Nil)

SendStmtNegotiateTypes(ls, vs) ==
    LET l == callNegotiateExprType(UnknownType, ls.Lhs, vs)
        s1 == [ls EXCEPT !.Lhs = l.value]
        r == callNegotiateExprType(UnknownType, ls.Rhs, vs)
        s2 == [s1 EXCEPT !.Rhs = r.value]
        lroot == RootType(l.slot)
    IN  IF l.err # Nil THEN Checked(s1, vs, l.err)
        ELSE IF r.err # Nil THEN Checked(s2, vs, r.err)
        ELSE IF Kind(lroot) # "CHAN" THEN Checked(s2, vs, "Not a chan used for sending")
        ELSE IF lroot.Dir = CHAN_DIR_RECEIVE
        THEN Checked(s2, vs, "Channel is receive-only")
        ELSE IF ~callIsAssignable(lroot.Of, r.slot)
        THEN Checked(s2, vs, "Send value has to be assignable to channel's base type")
        ELSE Checked(s2, vs, Nil)

\* NegotiateTypes of a statement, by its kind.
NegotiateTypes(st, vs) ==
    CASE st.stmt = "VarDecl" -> VarDeclNegotiateTypes(st, vs)
      [] st.stmt = "VarStmt" -> VarStmtNegotiateTypes(st, 1, vs)
      [] st.stmt = "AssignStmt" -> AssignStmtNegotiateTypes(st, vs)
      [] st.stmt = "ExprStmt" -> ExprStmtNegotiateTypes(st, vs)
      [] st.stmt = "SendStmt" -> SendStmtNegotiateTypes(st, vs)

RECURSIVE CheckTypesFromKeepsGoing(_, _, _)
\* The loop of CodeBlock.CheckTypes without its early return: the first error
\* is remembered and the statements after it are negotiated all the same.
CheckTypesFromKeepsGoing(statements, i, vs) ==
    IF i > Len(statements) THEN Checked(statements, vs, Nil)
    ELSE LET c == NegotiateTypes(statements[i], vs)
             now == [statements EXCEPT ![i] = c.st]
             rest == CheckTypesFromKeepsGoing(now, i + 1, c.vs)
         IN  IF c.err # Nil THEN Checked(rest.st, rest.vs, c.err) ELSE rest

RECURSIVE CheckTypesFrom(_, _, _)
\* The loop of CodeBlock.CheckTypes, from statement i on.
CheckTypesFrom(statements, i, vs) ==
    IF i > Len(statements) THEN Checked(statements, vs, Nil)
    ELSE LET c == NegotiateTypes(statements[i], vs)
             now == [statements EXCEPT ![i] = c.st]
         IN  IF c.err # Nil THEN Checked(now, c.vs, c.err)
             ELSE CheckTypesFrom(now, i + 1, c.vs)

\* CodeBlock.CheckTypes
CheckTypes(statements, vs) == CheckTypesFrom(statements, 1, vs)

\* The call of the walk fn on the arguments a.
Invoke(fn, a) ==
    CASE fn = "TypeOf" -> TypeOf(a[1], a[2])
      [] fn = "IsAssignable" -> IsAssignable(a[1], a[2])
      [] fn = "GuessType" -> GuessType(a[1], a[2])
      [] fn = "ApplyType" -> ApplyType(a[1], a[2], a[3])
      [] fn = "GuessListLike" -> GuessListLike(a[1], a[2], a[3], a[4])
      [] fn = "GuessMapLike" -> GuessMapLike(a[1], a[2], a[3], a[4], a[5])
      [] fn = "ApplyEach" -> ApplyEach(a[1], a[2], a[3], a[4])
      [] fn = "NegotiateExprType" -> NegotiateExprType(a[1], a[2], a[3])
      [] fn = "NegotiateTupleUnpackAssign" -> NegotiateTupleUnpackAssign(a[1], a[2], a[3], a[4])
      [] fn = "NegotiateArgs" -> NegotiateArgs(a[1], a[2], a[3], a[4])
      [] fn = "leftExprType" -> leftExprType(a[1], a[2])
      [] fn = "applyTypeSliceExpr" -> applyTypeSliceExpr(a[1], a[2], a[3])
      [] fn = "applyTypeForComparisonOp" -> applyTypeForComparisonOp(a[1], a[2], a[3])
      [] fn = "applyTypeToAsserted" -> applyTypeToAsserted(a[1], a[2], a[3])
      [] fn = "CheckTypes" -> CheckTypes(a[1], a[2])

-----------------------------------------------------------------------------
(* The programs the negotiator is run on: the variables in scope with      *)
(* their declared types (UNKNOWN when declared without one), and the       *)
(* statements and expressions blocks are made of.                          *)

DeclaredTypes ==
    [ x |-> UnknownType, y |-> UnknownType, ok |-> UnknownType,
      n |-> IntT, b |-> BoolT,
      m |-> MapType(StringT, IntT),
      ch |-> ChanType(IntT, CHAN_DIR_BIDI),
      out |-> ChanType(IntT, CHAN_DIR_SEND),
      rx |-> ChanType(IntT, CHAN_DIR_RECEIVE),
      xs |-> CustomType("Ints"),
      p |-> PointerType(IntT),
      e |-> EmptyIface,
      s |-> CustomType("Stringer"),
      c |-> CustomType("Celsius"),
      f |-> FuncType(<<IntT>>, <<IntT>>),
      g |-> FuncType(<<>>, <<IntT, BoolT>>),
      h |-> FuncType(<<IntT, BoolT>>, <<IntT>>),
      k |-> FuncType(<<>>, <<IntT, BoolT, StringT>>) ]

Var(name) == Ident(name, "OBJECT_VAR")
TypeName(name) == Ident(name, "OBJECT_TYPE")
IntLit == BasicLit("TOKEN_INT")
StrLit == BasicLit("TOKEN_STR")

MapIndex == ArrayExpr(Var("m"), StrLit)
Receive == UnaryOp("TOKEN_SEND", Var("ch"))
Assertion == TypeAssertion(Var("e"), IntT, FALSE)
EmptyLit == CompoundLit("COMPOUND_EMPTY", <<>>)

\* Expressions without operands of their own.
Leaves == {IntLit, StrLit, BasicLit("TOKEN_TRUE"), NilExpr, EmptyLit,
           Var("n"), Var("x"), Var("s"), Var("c")}

\* Expressions over the leaves.
Compounds ==
    { MapIndex, Receive, Assertion,
      UnaryOp("TOKEN_SEND", Var("out")),
      UnaryOp("TOKEN_MINUS", IntLit),
      UnaryOp("TOKEN_AMP", Var("n")),
      UnaryOp("TOKEN_MUL", Var("p")),
      BinaryOp("TOKEN_PLUS", Var("n"), IntLit),
      BinaryOp("TOKEN_PLUS", IntLit, StrLit),
      BinaryOp("TOKEN_LT", Var("n"), IntLit),
      BinaryOp("TOKEN_LT", Var("p"), Var("p")),
      BinaryOp("TOKEN_EQUALS", Var("s"), NilExpr),
      BinaryOp("TOKEN_AND", Var("b"), BasicLit("TOKEN_TRUE")),
      ArrayExpr(Var("xs"), IntLit),
      ArrayExpr(Var("xs"), SliceExpr(IntLit, IntLit)),
      TypeAssertion(Var("e"), IntT, TRUE),
      TypeAssertion(Var("n"), IntT, FALSE),
      CompoundLit("COMPOUND_LISTLIKE", <<IntLit, IntLit>>),
      CompoundLit("COMPOUND_MAPLIKE", <<StrLit, IntLit>>),
      FuncCallExpr(Var("f"), <<IntLit>>),
      FuncCallExpr(Var("f"), <<IntLit, IntLit>>),
      FuncCallExpr(Var("g"), <<>>),
      FuncCallExpr(Var("h"), <<FuncCallExpr(Var("g"), <<>>)>>),
      FuncCallExpr(TypeName("MyInt"), <<IntLit>>),
      FuncCallExpr(TypeName("Any"), <<EmptyLit>>),
      FuncCallExpr(TypeExpr(EmptyIface), <<Var("n")>>),
      FuncCallExpr(UnaryOp("TOKEN_MUL", TypeExpr(IntT)), <<Var("p")>>) }

\* The values NegotiateExprType is handed, the blank expression of a
\* declaration without initializer among them.
Values == Leaves \cup Compounds \cup {NewBlankExpr}

\* The expressions GuessType is asked about: the values, and operations
\* whose operands guess different types or do not guess at all.
GuessValues ==
    Values \cup { BinaryOp("TOKEN_PLUS", IntLit, BasicLit("TOKEN_FLOAT")),
                  BinaryOp("TOKEN_PLUS", Var("n"), BasicLit("TOKEN_FLOAT")),
                  BinaryOp("TOKEN_PLUS", IntLit, IntLit),
                  BinaryOp("TOKEN_PLUS",
                           FuncCallExpr(TypeName("MyInt"), <<Var("n")>>), IntLit),
                  UnaryOp("TOKEN_AMP", IntLit),
                  CompoundLit("COMPOUND_LISTLIKE", <<IntLit, StrLit>>) }

\* The types ApplyType is handed on a channel receive or a type assertion:
\* tuples of one, two and three members, and a plain type.
AppliedTypes ==
    { TupleType(<<IntT, BoolT>>), TupleType(<<IntT, StringT>>),
      TupleType(<<StringT, BoolT>>), TupleType(<<IntT, BoolT, StringT>>),
      TupleType(<<IntT>>), IntT, StringT }

\* The expressions that have a two-value form, well-formed and not.
AppliedValues ==
    { Receive, Assertion, MapIndex,
      UnaryOp("TOKEN_SEND", Var("rx")),
      UnaryOp("TOKEN_SEND", Var("out")),
      UnaryOp("TOKEN_SEND", Var("n")),
      TypeAssertion(Var("e"), IntT, TRUE),
      TypeAssertion(Var("n"), IntT, FALSE),
      TypeAssertion(Var("s"), CustomType("Celsius"), FALSE) }

\* The contents a slot starts with: nil, UNKNOWN or a known type.
Slots ==
    { NilType, UnknownType, IntT, StringT, BoolT, EmptyIface,
      CustomType("Stringer"), CustomType("Any"), CustomType("MyInt"),
      CustomType("Celsius"), PointerType(IntT), SliceType(IntT),
      MapType(StringT, IntT) }

\* The types the relations on types are asked about.
Types ==
    { UnknownType, IntT, StringT, BoolT, Float64T,
      CustomType("MyInt"), CustomType("Celsius"), CustomType("Kelvin"),
      PointerType(CustomType("Celsius")), PointerType(CustomType("Kelvin")),
      PointerType(IntT), CustomType("IntPtr"),
      EmptyIface, StringerIface, CustomType("Any"), CustomType("Stringer"),
      SliceType(IntT), CustomType("Ints"), MapType(StringT, IntT),
      ChanType(IntT, CHAN_DIR_BIDI), FuncType(<<IntT>>, <<IntT>>),
      TupleType(<<IntT, BoolT>>) }

\* The answer of a relation: its result, or the panic it ended in.
Verdict(ok, err) == [done |-> TRUE, ok |-> ok, err |-> err]
NoVerdict == [done |-> FALSE]
NoVerdicts == [IsAssignable |-> NoVerdict, Implements |-> NoVerdict,
               AreComparable |-> NoVerdict, AreOrdered |-> NoVerdict]

\* The slots and the right sides NegotiateTupleUnpackAssign is handed: up to
\* MaxSlots slots, unknown or typed, and right sides of one, two and three
\* values.
UnpackSlots ==
    UNION {[1..len -> {UnknownType, IntT, BoolT, StringT}] : len \in 1..MaxSlots}
UnpackValues ==
    { MapIndex, Receive, Assertion, IntLit, Var("x"),
      FuncCallExpr(Var("f"), <<IntLit>>), FuncCallExpr(Var("g"), <<>>),
      FuncCallExpr(Var("k"), <<>>) }

\* The right sides that have a two-value form, and calls.
TwoValued == {MapIndex, Receive, Assertion, FuncCallExpr(Var("g"), <<>>),
              FuncCallExpr(Var("f"), <<IntLit>>)}

Statements ==
    {VarDecl(<<"x">>, <<v>>) :
        v \in {IntLit, Var("n"), FuncCallExpr(TypeName("Any"), <<EmptyLit>>)}}
    \cup {VarDecl(<<"n">>, <<>>), VarDecl(<<"x">>, <<>>),
          VarDecl(<<"s">>, <<NilExpr>>), VarDecl(<<"s">>, <<Var("c")>>),
          VarDecl(<<"e">>, <<IntLit>>), VarDecl(<<"x", "y">>, <<IntLit, StrLit>>),
          VarStmt(<<VarDecl(<<"x">>, <<IntLit>>), VarDecl(<<"y">>, <<Var("x")>>)>>)}
    \cup {VarDecl(<<"x", "ok">>, <<v>>) : v \in TwoValued}
    \cup {AssignStmt(<<Var("x"), Var("ok")>>, <<MapIndex>>),
          AssignStmt(<<Var("n")>>, <<IntLit>>),
          AssignStmt(<<Var("n")>>, <<StrLit>>),
          AssignStmt(<<Var("n"), Var("b")>>, <<IntLit, IntLit, IntLit>>)}
    \cup {ExprStmt(v) : v \in {FuncCallExpr(Var("f"), <<IntLit>>),
                               BinaryOp("TOKEN_LT", Var("n"), IntLit),
                               BinaryOp("TOKEN_LT", Var("p"), Var("p")),
                               NilExpr}}
    \cup {SendStmt(Var("ch"), IntLit), SendStmt(Var("out"), StrLit),
          SendStmt(Var("n"), IntLit), SendStmt(Var("rx"), IntLit)}

-----------------------------------------------------------------------------
(* The lexers as a state machine: construction, then repeated Next() calls. *)

\* The fields of the scope-emitting lexer as one record.
ScopeLexer == [buf |-> buf, indentsStack |-> indentsStack, queue |-> queue]

\* The fields of the lexer of lexer.go as one record.
RichLexer ==
    [buf |-> buf, beyond |-> beyond, indentsStack |-> indentsStack,
     tokenIndent |-> tokenIndent, skipped |-> skipped, curTokenPos |-> curTokenPos]

IsEofTok(tok) == tok.Type \in {TOKEN_EOF, RTOKEN_EOF}

\* The calls so far that returned end-of-input or an error.
EndedCalls == {i \in 1..Len(calls) : calls[i].err # Nil \/ IsEofTok(calls[i].tok)}

\* The caller goes on pulling tokens, at most MaxExtraCalls times after the
\* first end-of-input token or error.
CanCall == Cardinality(EndedCalls) <= MaxExtraCalls

LexInit ==
    /\ \/ lexer = "scope" /\ buf \in LineInputs \cup MixedInputs
       \/ lexer = "rich" /\ buf \in MixedInputs
    /\ indentsStack = <<>>
    /\ queue = <<>>
    /\ tokenIndent = NoToken
    /\ skipped = 0
    /\ curTokenPos = 0
    /\ beyond = <<>>
    /\ pc = "idle"
    /\ calls = <<>>
    /\ unit = "none"
    /\ block = <<>>
    /\ varTypes = DeclaredTypes
    /\ slotType = NilType
    /\ valueExpr = NewBlankExpr
    /\ runs = <<>>
    /\ leftType = NilType
    /\ rightType = NilType
    /\ verdicts = NoVerdicts
    /\ slotTypes = <<>>
    /\ callsOnly = FALSE

\* One Next() call on the scope-emitting lexer.
ScopeCall ==
    /\ lexer = "scope"
    /\ CanCall
    /\ LET r == ScopeNext(ScopeLexer)
       IN  /\ buf' = r.l.buf
           /\ indentsStack' = r.l.indentsStack
           /\ queue' = r.l.queue
           /\ calls' = Append(calls, [tok |-> r.tok, err |-> r.err, pre |-> ScopeLexer])
    /\ UNCHANGED <<lexer, tokenIndent, skipped, curTokenPos, beyond, pc, typeVars>>

\* One Next() call on the lexer of lexer.go.
RichCall ==
    /\ lexer = "rich"
    /\ CanCall
    /\ LET r == RichNext(RichLexer)
       IN  /\ buf' = r.l.buf
           /\ indentsStack' = r.l.indentsStack
           /\ tokenIndent' = r.l.tokenIndent
           /\ skipped' = r.l.skipped
           /\ curTokenPos' = r.l.curTokenPos
           /\ calls' = Append(calls, [tok |-> r.tok, err |-> r.err, pre |-> RichLexer])
    /\ UNCHANGED <<lexer, queue, beyond, pc, typeVars>>

LexNext == ScopeCall \/ RichCall

LexSpec == LexInit /\ [][LexNext]_vars

\* The lexer of lexer.go constructed on a text of pieces.
RichInit ==
    /\ lexer = "rich"
    /\ buf \in PieceSeqs(MaxPieces)
    /\ beyond \in Hidden
    /\ pc = "idle"
    /\ indentsStack = <<>>
    /\ queue = <<>>
    /\ tokenIndent = NoToken
    /\ skipped = 0
    /\ curTokenPos = 0
    /\ calls = <<>>
    /\ unit = "none"
    /\ block = <<>>
    /\ varTypes = DeclaredTypes
    /\ slotType = NilType
    /\ valueExpr = NewBlankExpr
    /\ runs = <<>>
    /\ leftType = NilType
    /\ rightType = NilType
    /\ verdicts = NoVerdicts
    /\ slotTypes = <<>>
    /\ callsOnly = FALSE

RichSpec == RichInit /\ [][RichCall]_vars

\* Both lexers, ready for their first Next() call.
StepInit ==
    /\ \/ lexer = "scope" /\ buf \in LineInputs /\ beyond = <<>>
       \/ lexer = "rich" /\ buf \in PieceSeqs(MaxPieces) /\ beyond \in Hidden
    /\ pc = "idle"
    /\ indentsStack = <<>>
    /\ queue = <<>>
    /\ tokenIndent = NoToken
    /\ skipped = 0
    /\ curTokenPos = 0
    /\ calls = <<>>
    /\ unit = "none"
    /\ block = <<>>
    /\ varTypes = DeclaredTypes
    /\ slotType = NilType
    /\ valueExpr = NewBlankExpr
    /\ runs = <<>>
    /\ leftType = NilType
    /\ rightType = NilType
    /\ verdicts = NoVerdicts
    /\ slotTypes = <<>>
    /\ callsOnly = FALSE

\* One pass of Next of the scope-emitting lexer: it calls itself or returns.
ScopeStep ==
    /\ lexer = "scope"
    /\ pc = "Next" \/ (pc = "idle" /\ CanCall)
    /\ LET p == ScopePass(ScopeLexer)
       IN  /\ buf' = p.l.buf
           /\ indentsStack' = p.l.indentsStack
           /\ queue' = p.l.queue
           /\ pc' = IF p.again THEN "Next" ELSE "idle"
           /\ calls' = IF p.again THEN calls
                       ELSE Append(calls, [tok |-> p.tok, err |-> p.err, pre |-> ScopeLexer])
    /\ UNCHANGED <<lexer, tokenIndent, skipped, curTokenPos, beyond, typeVars>>

\* One pass of Next of lexer.go: it calls itself, returns, or panics and
\* takes the program down.
RichStep ==
    /\ lexer = "rich"
    /\ pc = "Next" \/ (pc = "idle" /\ CanCall)
    /\ LET p == RichPass(RichLexer)
       IN  /\ buf' = p.l.buf
           /\ indentsStack' = p.l.indentsStack
           /\ tokenIndent' = p.l.tokenIndent
           /\ skipped' = p.l.skipped
           /\ curTokenPos' = p.l.curTokenPos
           /\ pc' = IF p.again THEN "Next" ELSE IF p.err = Panic THEN "panic" ELSE "idle"
           /\ calls' = IF p.again \/ p.err = Panic THEN calls
                       ELSE Append(calls, [tok |-> p.tok, err |-> p.err, pre |-> RichLexer])
    /\ UNCHANGED <<lexer, queue, beyond, typeVars>>

StepNext == ScopeStep \/ RichStep

\* A running call goes on running, and the caller goes on calling Next().
StepSpec == StepInit /\ [][StepNext]_vars /\ WF_vars(StepNext)

-----------------------------------------------------------------------------
(* The negotiator as a state machine: a program is a code block, checked   *)
(* by CheckTypes, or a slot and a value, handed to NegotiateExprType; the  *)
(* caller may run the negotiator on the same program again.                *)

RECURSIVE SubExprs(_)
\* The typed expressions of a tree: the expression, its operands, arguments,
\* container, index, bounds and elements. The callee of a conversion and the
\* right side of a type assertion are type names.
SubExprs(e) ==
    LET all(es) == UNION {SubExprs(es[i]) : i \in 1..Len(es)}
    IN  CASE e.node = "UnaryOp" -> {e} \cup SubExprs(e.Right)
          [] e.node = "BinaryOp" -> {e} \cup SubExprs(e.Left) \cup SubExprs(e.Right)
          [] e.node = "FuncCallExpr" ->
                {e} \cup all(e.Args)
                    \cup (IF ExprToTypeName(e.Left).ok THEN {} ELSE SubExprs(e.Left))
          [] e.node = "ArrayExpr" ->
                {e} \cup SubExprs(e.Left)
                    \cup (IF e.Index.node = "SliceExpr"
                          THEN SubExprs(e.Index.From) \cup SubExprs(e.Index.To)
                          ELSE SubExprs(e.Index))
          [] e.node = "TypeAssertion" -> {e} \cup SubExprs(e.Left)
          [] e.node = "CompoundLit" -> {e} \cup all(e.elems)
          [] OTHER -> {e}

RECURSIVE Flat(_)
\* The statements of a block in order, a VarStmt as its declarations.
Flat(sts) ==
    IF sts = <<>> THEN <<>>
    ELSE (IF Head(sts).stmt = "VarStmt" THEN Head(sts).Vars ELSE <<Head(sts)>>)
            \o Flat(Tail(sts))

\* The expressions a statement holds.
StmtExprs(st) ==
    CASE st.stmt = "VarDecl" -> SeqElems(st.Inits)
      [] st.stmt = "AssignStmt" -> SeqElems(st.Lhs) \cup SeqElems(st.Rhs)
      [] st.stmt = "ExprStmt" -> {st.Expression}
      [] st.stmt = "SendStmt" -> {st.Lhs, st.Rhs}

\* Every typed expression inside a block.
BlockExprs(sts) ==
    UNION {SubExprs(e) : e \in UNION {StmtExprs(Flat(sts)[i]) : i \in 1..Len(Flat(sts))}}

\* The variables a statement declares.
Declared(st) == IF st.stmt = "VarDecl" THEN SeqElems(st.Vars) ELSE {}

\* The variables a statement uses.
Used(st) ==
    {e.name : e \in {u \in UNION {SubExprs(x) : x \in StmtExprs(st)} : u.node = "Ident"}}

\* A variable whose type is still to be inferred is used only after its
\* declaration in the block; the other variables come typed from outside.
WellScoped(sts) ==
    \A i \in 1..Len(Flat(sts)) :
        \A name \in Used(Flat(sts)[i]) :
            \/ Known(DeclaredTypes[name])
            \/ \E j \in 1..(i - 1) : name \in Declared(Flat(sts)[j])

\* The code blocks of at most MaxStmts statements.
Blocks == {sts \in UNION {[1..k -> Statements] : k \in 0..MaxStmts} : WellScoped(sts)}

\* What a call of the negotiator may change.
Program == [block |-> block, varTypes |-> varTypes,
            slotType |-> slotType, valueExpr |-> valueExpr, lhsTypes |-> slotTypes]

\* No lexer runs, the variables in scope have their declared types and
\* nothing has been called yet.
Idle ==
    /\ lexer = "none"
    /\ buf = <<>>
    /\ indentsStack = <<>>
    /\ queue = <<>>
    /\ tokenIndent = NoToken
    /\ skipped = 0
    /\ curTokenPos = 0
    /\ beyond = <<>>
    /\ pc = "idle"
    /\ calls = <<>>
    /\ varTypes = DeclaredTypes
    /\ runs = <<>>
    /\ verdicts = NoVerdicts

\* A code block before CheckTypes, or a slot and a value before
\* NegotiateExprType.
TypeInit ==
    /\ Idle
    /\ \/ unit = "block" /\ block \in Blocks
          /\ slotType = NilType /\ valueExpr = NewBlankExpr
       \/ unit = "expr" /\ block = <<>>
          /\ slotType \in Slots /\ valueExpr \in Values
    /\ leftType = NilType /\ rightType = NilType
    /\ slotTypes = <<>> /\ callsOnly = FALSE

\* An expression before GuessType, an expression and a type before
\* ApplyType, or slots and a right side before NegotiateTupleUnpackAssign.
ExprInit ==
    /\ Idle
    /\ block = <<>>
    /\ \/ unit = "guess"
          /\ slotType = NilType /\ valueExpr \in GuessValues
          /\ slotTypes = <<>> /\ callsOnly = FALSE
       \/ unit = "apply"
          /\ slotType \in AppliedTypes /\ valueExpr \in AppliedValues
          /\ slotTypes = <<>> /\ callsOnly = FALSE
       \/ unit = "unpack"
          /\ slotType = NilType /\ valueExpr \in UnpackValues
          /\ slotTypes \in UnpackSlots /\ callsOnly \in BOOLEAN
    /\ leftType = NilType /\ rightType = NilType

\* Two types before the relations on types are asked about them.
RelInit ==
    /\ Idle
    /\ unit = "types"
    /\ block = <<>>
    /\ slotType = NilType /\ valueExpr = NewBlankExpr
    /\ leftType \in Types /\ rightType \in Types
    /\ slotTypes = <<>> /\ callsOnly = FALSE

\* One call of CodeBlock.CheckTypes.
CheckTypesCall ==
    /\ unit = "block"
    /\ Len(runs) < MaxTypeCalls
    /\ \E c \in {callCheckTypes(block, varTypes)} :
           /\ block' = c.st
           /\ varTypes' = c.vs
           /\ runs' = Append(runs, [err |-> c.err, pre |-> Program])
    /\ UNCHANGED <<unit, slotType, valueExpr, relVars, unpackVars, lexVars>>

\* One call of NegotiateExprType.
NegotiateCall ==
    /\ unit = "expr"
    /\ Len(runs) < MaxTypeCalls
    /\ \E n \in {callNegotiateExprType(slotType, valueExpr, varTypes)} :
           /\ slotType' = n.slot
           /\ valueExpr' = n.value
           /\ runs' = Append(runs, [err |-> n.err, pre |-> Program])
    /\ UNCHANGED <<unit, block, varTypes, relVars, unpackVars, lexVars>>

\* One call of GuessType on an expression.
GuessTypeCall ==
    /\ unit = "guess"
    /\ Len(runs) < MaxTypeCalls
    /\ \E g \in {callGuessType(valueExpr, varTypes)} :
           /\ valueExpr' = g.e
           /\ runs' = Append(runs, [err |-> g.err, ok |-> g.ok, typ |-> g.typ,
                                    pre |-> Program])
    /\ UNCHANGED <<unit, block, varTypes, slotType, relVars, unpackVars, lexVars>>

\* One call of ApplyType on an expression.
ApplyTypeCall ==
    /\ unit = "apply"
    /\ Len(runs) < MaxTypeCalls
    /\ \E a \in {callApplyType(valueExpr, slotType, varTypes)} :
           /\ valueExpr' = a.e
           /\ runs' = Append(runs, [err |-> a.err, pre |-> Program])
    /\ UNCHANGED <<unit, block, varTypes, slotType, relVars, unpackVars, lexVars>>

\* One call of NegotiateTupleUnpackAssign.
UnpackCall ==
    /\ unit = "unpack"
    /\ Len(runs) < MaxTypeCalls
    /\ \E n \in {callNegotiateTupleUnpackAssign(callsOnly, slotTypes,
                                                 valueExpr, varTypes)} :
           /\ slotTypes' = n.lhs
           /\ valueExpr' = n.rhs
           /\ runs' = Append(runs, [err |-> n.err, pre |-> Program])
    /\ UNCHANGED <<unit, block, varTypes, slotType, callsOnly, relVars, lexVars>>

\* What a call of a relation on types leaves alone.
TypesUntouched ==
    UNCHANGED <<unit, block, varTypes, slotType, valueExpr, runs,
                leftType, rightType, unpackVars, lexVars>>

\* One call of IsAssignable.
IsAssignableCall ==
    /\ unit = "types"
    /\ ~verdicts.IsAssignable.done
    /\ verdicts' = [verdicts EXCEPT
            !.IsAssignable = Verdict(callIsAssignable(leftType, rightType), Nil)]
    /\ TypesUntouched

\* One call of Implements; its type assertion on the root of the first type
\* panics when that root is no interface.
ImplementsCall ==
    /\ unit = "types"
    /\ ~verdicts.Implements.done
    /\ verdicts' = [verdicts EXCEPT
            !.Implements = IF IsInterface(leftType)
                           THEN Verdict(Implements(leftType, rightType), Nil)
                           ELSE Verdict(FALSE, Panic)]
    /\ TypesUntouched

\* One call of AreComparable.
AreComparableCall ==
    /\ unit = "types"
    /\ ~verdicts.AreComparable.done
    /\ verdicts' = [verdicts EXCEPT
            !.AreComparable = Verdict(AreComparable(leftType, rightType), Nil)]
    /\ TypesUntouched

\* One call of AreOrdered.
AreOrderedCall ==
    /\ unit = "types"
    /\ ~verdicts.AreOrdered.done
    /\ \E o \in {AreOrdered(leftType, rightType)} :
           verdicts' = [verdicts EXCEPT !.AreOrdered = Verdict(o.ok, o.err)]
    /\ TypesUntouched

TypeNext == CheckTypesCall \/ NegotiateCall

ExprNext == GuessTypeCall \/ ApplyTypeCall \/ UnpackCall

RelNext == IsAssignableCall \/ ImplementsCall \/ AreComparableCall \/ AreOrderedCall

\* The negotiator run on code blocks and on single slots and values.
TypeSpec == TypeInit /\ [][TypeNext]_vars

\* The walks of an expression and the unpacking of a tuple, called directly.
ExprSpec == ExprInit /\ [][ExprNext]_vars

\* The relations on types, asked about every pair of types.
RelSpec == RelInit /\ [][RelNext]_vars
-----------------------------------------------------------------------------
(* Vocabulary of the lexer claims. *)

NCalls == Len(calls)

IsScopeTok(tok) == tok.Type \in {TOKEN_NEWSCOPE, TOKEN_ENDSCOPE}

\* The indent stack after call i.
PostStack(i) == IF i < NCalls THEN calls[i + 1].pre.indentsStack ELSE indentsStack

\* The queue after call i.
PostQueue(i) == IF i < NCalls THEN calls[i + 1].pre.queue ELSE queue

\* How many of the calls 1..k returned a token of this type.
CountTok(type, k) == Cardinality({i \in 1..k : calls[i].tok.Type = type})

\* Call k is the first that returned end-of-input, and no call up to it failed.
AcceptedAt(k) ==
    /\ IsEofTok(calls[k].tok)
    /\ \A i \in 1..(k - 1) : ~IsEofTok(calls[i].tok)
    /\ \A i \in 1..k : calls[i].err = Nil

\* What a buffer says about the line a Next() call is about to start, read
\* off the characters alone: whether, after optional whitespace, a newline
\* comes and then (after any blank lines) a non-blank line, and that
\* line's indent width.
RECURSIVE LineStart(_)
LineStart(b) ==
    LET b1 == DropFirst(b, WhiteRun(b)) IN
    IF b1 = <<>> \/ b1[1] # NL THEN [found |-> FALSE, indent |-> 0]
    ELSE LET w == WhiteRun(Tail(b1))
             b2 == DropFirst(Tail(b1), w)
         IN  IF b2 = <<>> THEN [found |-> FALSE, indent |-> 0]
             ELSE IF b2[1] = NL THEN LineStart(b2)
             ELSE [found |-> TRUE, indent |-> w]

\* Call i of the scope-emitting lexer starts a non-blank line.
StartsLine(i) ==
    /\ lexer = "scope"
    /\ calls[i].pre.queue = <<>>
    /\ LineStart(calls[i].pre.buf).found

LineIndentOf(i) == LineStart(calls[i].pre.buf).indent

Top(stack) == stack[Len(stack)]

Elems(stack) == {stack[j] : j \in 1..Len(stack)}

\* The entries of a stack that are at most w, in order.
KeepUpTo(stack, w) == SelectSeq(stack, LAMBDA x : x <= w)

\* Only whitespace and newlines are left in the buffer.
OnlyBlank(b) == \A j \in 1..Len(b) : IsSpace(b[j])

-----------------------------------------------------------------------------
(* C1: on an input the scope-emitting lexer accepts, the tokens returned up *)
(* to and including the first end-of-input token hold as many ENDSCOPE as  *)
(* NEWSCOPE tokens.                                                        *)
C1_ScopesBalanced ==
    lexer = "scope" =>
        \A k \in 1..NCalls :
            AcceptedAt(k) => CountTok(TOKEN_ENDSCOPE, k) = CountTok(TOKEN_NEWSCOPE, k)

\* An accepted input that opened two scopes.
C1_Witness ==
    /\ lexer = "scope"
    /\ \E k \in 1..NCalls : AcceptedAt(k) /\ CountTok(TOKEN_NEWSCOPE, k) >= 2

(* C5 as stated: a non-blank line dedenting to a width that is on no entry  *)
(* of the indent stack always fails with "Bad indent", also when every     *)
(* entry of the stack is wider than the line.                              *)
C5_AnyUnmatchedDedentFails ==
    \A i \in 1..NCalls :
        ( /\ StartsLine(i)
          /\ calls[i].pre.indentsStack # <<>>
          /\ LineIndentOf(i) < Top(calls[i].pre.indentsStack)
          /\ LineIndentOf(i) \notin Elems(calls[i].pre.indentsStack) )
        => calls[i].err = "Bad indent"

(* C5 amended: a non-blank line dedenting to a width that lies strictly    *)
(* between two entries of the indent stack fails with "Bad indent" and     *)
(* returns no token; a line narrower than every entry pops them all and is *)
(* accepted with an empty stack.                                           *)
C5_IntermediateDedentFails ==
    \A i \in 1..NCalls :
        ( /\ StartsLine(i)
          /\ calls[i].pre.indentsStack # <<>>
          /\ LineIndentOf(i) < Top(calls[i].pre.indentsStack)
          /\ LineIndentOf(i) \notin Elems(calls[i].pre.indentsStack) )
        => IF \E x \in Elems(calls[i].pre.indentsStack) : x < LineIndentOf(i)
           THEN calls[i].err = "Bad indent" /\ calls[i].tok = NoToken
           ELSE calls[i].err = Nil /\ PostStack(i) = <<>>

\* Some call met a line that dedents to a width between two entries of the
\* stack and returned "Bad indent".
C5_Witness ==
    \E i \in 1..NCalls :
        /\ StartsLine(i)
        /\ Len(calls[i].pre.indentsStack) >= 2
        /\ LineIndentOf(i) < Top(calls[i].pre.indentsStack)
        /\ LineIndentOf(i) \notin Elems(calls[i].pre.indentsStack)
        /\ \E x \in Elems(calls[i].pre.indentsStack) : x < LineIndentOf(i)
        /\ calls[i].err = "Bad indent"

(* C6: when the scope-emitting lexer is called with nothing queued and     *)
(* nothing but blank space left in its input, with n widths on the stack,  *)
(* that call and the following ones return n ENDSCOPE tokens and then the  *)
(* end-of-input token, and the stack is empty after each of them.          *)
C6_DrainAtEnd ==
    lexer = "scope" =>
        \A i \in 1..NCalls :
            (calls[i].pre.queue = <<>> /\ OnlyBlank(calls[i].pre.buf)) =>
                LET n == Len(calls[i].pre.indentsStack) IN
                \A j \in i..NCalls :
                    /\ calls[j].err = Nil
                    /\ calls[j].tok.Type = IF j < i + n THEN TOKEN_ENDSCOPE ELSE TOKEN_EOF
                    /\ PostStack(j) = <<>>

\* The end was reached with two scopes open, and end-of-input was returned.
C6_Witness ==
    /\ lexer = "scope"
    /\ \E i \in 1..NCalls :
        /\ calls[i].pre.queue = <<>>
        /\ OnlyBlank(calls[i].pre.buf)
        /\ Len(calls[i].pre.indentsStack) >= 2
        /\ NCalls >= i + 2
        /\ IsEofTok(calls[NCalls].tok)

(* C7: once a Next() call has returned the end-of-input token, every later *)
(* call returns it again with a nil error (both lexers).                   *)
C7_EofIsFinal ==
    \A i \in 1..NCalls : \A j \in i..NCalls :
        IsEofTok(calls[i].tok) => (IsEofTok(calls[j].tok) /\ calls[j].err = Nil)

\* End-of-input was returned twice after scopes were closed.
C7_Witness ==
    /\ NCalls >= 4
    /\ IsEofTok(calls[NCalls].tok)
    /\ IsEofTok(calls[NCalls - 1].tok)
    /\ calls[NCalls - 2].tok.Type = TOKEN_ENDSCOPE

(* C8: a non-blank line wider than the top of the stack, or met with an    *)
(* empty stack, makes Next() push its width and return NEWSCOPE, and the   *)
(* next call returns no scope token; a line as wide as the top returns no  *)
(* scope token and leaves stack and queue as they were.                    *)
C8_IndentOpensOneScope ==
    \A i \in 1..NCalls :
        StartsLine(i) =>
            LET stack == calls[i].pre.indentsStack
                w == LineIndentOf(i)
            IN  /\ (stack = <<>> \/ w > Top(stack)) =>
                      /\ calls[i].tok = Token(TOKEN_NEWSCOPE, Nil)
                      /\ calls[i].err = Nil
                      /\ PostStack(i) = Append(stack, w)
                      /\ PostQueue(i) = <<>>
                      /\ i < NCalls => ~IsScopeTok(calls[i + 1].tok)
                /\ (stack # <<>> /\ w = Top(stack)) =>
                      /\ ~IsScopeTok(calls[i].tok)
                      /\ PostStack(i) = stack
                      /\ PostQueue(i) = <<>>

\* A second scope was opened, and a line at the width of the top was read.
C8_Witness ==
    /\ \E i \in 1..NCalls :
           /\ StartsLine(i)
           /\ calls[i].pre.indentsStack # <<>>
           /\ LineIndentOf(i) > Top(calls[i].pre.indentsStack)
           /\ calls[i].tok.Type = TOKEN_NEWSCOPE
    /\ \E i \in 1..NCalls :
           /\ StartsLine(i)
           /\ calls[i].pre.indentsStack # <<>>
           /\ LineIndentOf(i) = Top(calls[i].pre.indentsStack)
           /\ calls[i].tok.Type = TOKEN_WORD

(* C9: a non-blank line not wider than the top of the stack pops every     *)
(* entry wider than the line, and one ENDSCOPE per popped entry is         *)
(* returned before the line's first real token: by this call and the next  *)
(* ones, or, when this call fails with "Bad indent", by the calls after it.*)
C9_DedentClosesScopes ==
    \A i \in 1..NCalls :
        ( /\ StartsLine(i)
          /\ calls[i].pre.indentsStack # <<>>
          /\ LineIndentOf(i) <= Top(calls[i].pre.indentsStack) )
        => LET stack == calls[i].pre.indentsStack
               kept == KeepUpTo(stack, LineIndentOf(i))
               popped == Len(stack) - Len(kept)
               first == IF calls[i].err = "Bad indent" THEN i + 1 ELSE i
           IN  /\ PostStack(i) = kept
               /\ \A j \in first..NCalls :
                      /\ j < first + popped => calls[j].tok = Token(TOKEN_ENDSCOPE, Nil)
                      /\ j = first + popped => ~IsScopeTok(calls[j].tok)

\* A line closed the scope above its own width: ENDSCOPE, then its word.
C9_Witness ==
    \E i \in 1..NCalls :
        /\ StartsLine(i)
        /\ Len(calls[i].pre.indentsStack) >= 2
        /\ LineIndentOf(i) < Top(calls[i].pre.indentsStack)
        /\ LineIndentOf(i) \in Elems(calls[i].pre.indentsStack)
        /\ calls[i].tok.Type = TOKEN_ENDSCOPE
        /\ NCalls >= i + 1
        /\ calls[i + 1].tok.Type = TOKEN_WORD

\* The results of the Next() calls on a scope-emitting lexer, up to and
\* including the first end-of-input token or error.
RECURSIVE ScopeRun(_)
ScopeRun(l) ==
    LET r == ScopeNext(l)
        result == [tok |-> r.tok, err |-> r.err]
    IN  IF r.err # Nil \/ IsEofTok(r.tok)
        THEN <<result>>
        ELSE <<result>> \o ScopeRun(r.l)

\* The results of the calls made so far.
Returned == [i \in 1..NCalls |-> [tok |-> calls[i].tok, err |-> calls[i].err]]

\* The last call made is the first that returned end-of-input or an error.
RunJustEnded == NCalls >= 1 /\ EndedCalls = {NCalls}

\* The places of an input where a line can be inserted between two lines:
\* before a newline, and at the end.
LineBreaks(input) == {k \in 0..Len(input) : k = Len(input) \/ input[k + 1] = NL}

\* The input with a line of n blanks inserted after its first k characters.
WithBlankLine(input, k, n) ==
    SubSeq(input, 1, k) \o <<NL>> \o Spaces(n) \o SubSeq(input, k + 1, Len(input))

(* C10: a line holding only whitespace, or nothing, inserted between two   *)
(* lines of an input (or after its last line) leaves the results of the    *)
(* scope-emitting lexer unchanged, scope tokens and errors included.       *)
(* Inserting several such lines is inserting one after the other.          *)
C10_BlankLinesIgnored ==
    (lexer = "scope" /\ RunJustEnded) =>
        LET input == calls[1].pre.buf IN
        \A k \in LineBreaks(input) : \A n \in 0..MaxIndent :
            ScopeRun(NewLexer(WithBlankLine(input, k, n))) = Returned

\* A run that opened two scopes on an input that itself has a line of one
\* blank between two of its lines.
C10_Witness ==
    /\ lexer = "scope"
    /\ RunJustEnded
    /\ CountTok(TOKEN_NEWSCOPE, NCalls) >= 2
    /\ LET input == calls[1].pre.buf
       IN  \E k \in 1..(Len(input) - 3) :
               /\ input[k] = NL /\ input[k + 1] = " " /\ input[k + 2] = NL
               /\ input[k + 3] = " "

-----------------------------------------------------------------------------
(* Claims about the type negotiator, checked under TypeSpec.               *)

\* The latest call of the negotiator returned nil.
Accepted == runs # <<>> /\ runs[Len(runs)].err = Nil

\* The program as call i of the negotiator left it.
After(i) == IF i = Len(runs) THEN Program ELSE runs[i + 1].pre

\* C2: whenever NegotiateExprType(slot, value) returns nil, whatever the slot
\* held before (nil, UNKNOWN or a known type) and whatever the value is (the
\* blank expression of a declaration without initializer included), the slot
\* holds a type that is Known() and IsAssignable(slot, value.Type()) is true.
C2_SlotKnownAndAssignable ==
    (unit = "expr" /\ Accepted) =>
        /\ Known(slotType)
        /\ callIsAssignable(slotType, callTypeOf(valueExpr, varTypes))

\* C3: when CheckTypes returned nil on a block, the next CheckTypes on the
\* same block returns nil as well and changes no variable's type and no
\* expression's recorded type, two-value unpacking statements included.
C3_CheckTypesIdempotent ==
    \A i \in 1..(Len(runs) - 1) :
        (unit = "block" /\ runs[i].err = Nil) =>
            /\ runs[i + 1].err = Nil
            /\ After(i + 1) = runs[i + 1].pre

\* C4: after CheckTypes returned nil, every typed expression inside the
\* block, every operand, call argument and conversion argument included,
\* has a Type() that is Known().
C4_EveryTypeKnown ==
    (unit = "block" /\ Accepted) =>
        \A e \in BlockExprs(block) : Known(callTypeOf(e, varTypes))

\* Call i of NegotiateExprType met a slot of interface type and a value whose
\* Type() is unknown but whose type can be guessed.
InterfaceCase(i) ==
    /\ unit = "expr"
    /\ IsInterface(runs[i].pre.slotType)
    /\ ~Known(callTypeOf(runs[i].pre.valueExpr, runs[i].pre.varTypes))
    /\ callGuessType(runs[i].pre.valueExpr, runs[i].pre.varTypes).ok

\* The type GuessType proposed for the value call i started with.
GuessOf(i) == callGuessType(runs[i].pre.valueExpr, runs[i].pre.varTypes).typ

\* C11: when NegotiateExprType meets a slot of interface type and a value of
\* unknown type whose GuessType succeeds with g, it fails if g is not
\* assignable to the interface; when it succeeds the value's Type() is g, not
\* the interface type, and the slot still holds the interface type.
C11_InterfaceSlotAppliesGuess ==
    \A i \in 1..Len(runs) :
        InterfaceCase(i) =>
            /\ ~callIsAssignable(runs[i].pre.slotType, GuessOf(i))
                    => runs[i].err # Nil
            /\ runs[i].err = Nil =>
                    /\ callTypeOf(After(i).valueExpr, After(i).varTypes) = GuessOf(i)
                    /\ After(i).slotType = runs[i].pre.slotType

\* An integer literal was accepted into an interface slot and is an int.
C11_Witness ==
    /\ Len(runs) >= 1
    /\ InterfaceCase(1)
    /\ runs[1].err = Nil
    /\ runs[1].pre.valueExpr = IntLit
    /\ callTypeOf(After(1).valueExpr, After(1).varTypes) = IntT
    /\ After(1).slotType = EmptyIface

\* What CheckTypes makes of the first k statements of the block call i started
\* with.
PrefixChecked(i, k) ==
    callCheckTypes(SubSeq(runs[i].pre.block, 1, k), runs[i].pre.varTypes)

\* C12: CheckTypes negotiates the statements in order and returns the error
\* of the first failing statement; no statement after the failing one is
\* negotiated, so the recorded types of their expressions and the types of
\* the variables are what the statements up to the failing one left.
C12_StopsAtFirstFailure ==
    \A i \in 1..Len(runs) :
        (unit = "block" /\ runs[i].err # Nil) =>
            \E k \in 1..Len(runs[i].pre.block) :
                /\ \A j \in 1..(k - 1) : PrefixChecked(i, j).err = Nil
                /\ PrefixChecked(i, k).err = runs[i].err
                /\ After(i).varTypes = PrefixChecked(i, k).vs
                /\ After(i).block =
                        PrefixChecked(i, k).st
                            \o SubSeq(runs[i].pre.block, k + 1, Len(runs[i].pre.block))

\* The first of two statements failed and the second, which negotiation
\* would have changed, is as it was.
C12_Witness ==
    /\ unit = "block"
    /\ Len(runs) >= 1
    /\ Len(runs[1].pre.block) = 2
    /\ runs[1].err # Nil
    /\ PrefixChecked(1, 1).err # Nil
    /\ callCheckTypes(<<runs[1].pre.block[2]>>, runs[1].pre.varTypes).st
            # <<runs[1].pre.block[2]>>
    /\ After(1).block[2] = runs[1].pre.block[2]

\* C13: IsAssignable(t, t) is true for every Known type t, whatever its
\* variant: a named type is assignable to itself whatever its root, a named
\* interface with a non-empty method set included.
C13_IsAssignableReflexive ==
    (/\ unit = "types"
     /\ verdicts.IsAssignable.done
     /\ leftType = rightType
     /\ Known(leftType)) => verdicts.IsAssignable.ok

\* C14: AreComparable is symmetric, AreComparable(a, b) = AreComparable(b, a)
\* for all types a and b, and it is false whenever either type is UNKNOWN.
C14_AreComparableSymmetric ==
    (unit = "types" /\ verdicts.AreComparable.done) =>
        /\ verdicts.AreComparable.err = Nil
        /\ verdicts.AreComparable.ok = AreComparable(rightType, leftType)
        /\ (Kind(leftType) = "UNKNOWN" \/ Kind(rightType) = "UNKNOWN")
                => ~verdicts.AreComparable.ok

\* An int is assignable to the empty interface and not the other way round,
\* and the two were found not comparable.
C14_Witness ==
    /\ unit = "types"
    /\ verdicts.AreComparable.done
    /\ leftType = EmptyIface
    /\ rightType = IntT
    /\ callIsAssignable(leftType, rightType)
    /\ ~callIsAssignable(rightType, leftType)
    /\ ~verdicts.AreComparable.ok

\* The method set Implements reads from a value: the declared methods of a
\* named type, the methods of an interface, none otherwise.
MethodSet(value) ==
    CASE Kind(value) = "CUSTOM" -> SeqElems(TypeDecls[value.Name].Methods)
      [] Kind(value) = "INTERFACE" -> SeqElems(value.Methods)
      [] OTHER -> {}

\* The value with one level of pointer taken off.
Unwrapped(value) == IF Kind(value) = "POINTER" THEN value.To ELSE value

TupleMembers(i) ==
    LET rhs == runs[i].pre.valueExpr
        rt == callTypeOf(rhs, runs[i].pre.varTypes)
        g == callGuessType(rhs, runs[i].pre.varTypes)
    IN  IF rhs.node = "FuncCallExpr" THEN rt.Members
        ELSE <<IF Known(rt) THEN rt ELSE g.typ, BoolT>>

\* Call i of NegotiateTupleUnpackAssign had a tuple to unpack: a call that
\* returns a tuple, or another right side of known or guessable type.
HasTuple(i) ==
    LET rhs == runs[i].pre.valueExpr
        rt == callTypeOf(rhs, runs[i].pre.varTypes)
        g == callGuessType(rhs, runs[i].pre.varTypes)
    IN  IF rhs.node = "FuncCallExpr" THEN Kind(rt) = "TUPLE"
        ELSE ~callsOnly /\ (Known(rt) \/ (g.ok /\ Known(g.typ)))

\* C16: NegotiateTupleUnpackAssign returns an error whenever the number of
\* slots differs from the number of members of the tuple, with more slots as
\* well as with fewer; it returns nil only when the counts are equal, every
\* UNKNOWN slot has received the member's type and every known slot is
\* assignable from its member.
C16_CountsMustMatch ==
    \A i \in 1..Len(runs) :
        (unit = "unpack" /\ HasTuple(i)) =>
            /\ Len(runs[i].pre.lhsTypes) # Len(TupleMembers(i))
                    => runs[i].err \notin {Nil, Panic}
            /\ runs[i].err = Nil =>
                    /\ Len(runs[i].pre.lhsTypes) = Len(TupleMembers(i))
                    /\ \A j \in 1..Len(runs[i].pre.lhsTypes) :
                            IF Kind(runs[i].pre.lhsTypes[j]) = "UNKNOWN"
                            THEN After(i).lhsTypes[j] = TupleMembers(i)[j]
                            ELSE callIsAssignable(runs[i].pre.lhsTypes[j],
                                                  TupleMembers(i)[j])

\* The root of the type of the left operand of a send statement.
SendRoot(st, vs) == RootType(callTypeOf(st.Lhs, vs))

\* Call i of CheckTypes starts with a send statement whose two operands
\* negotiate and whose channel is receive-only.
SendsOnReceiveOnly(i) ==
    /\ runs[i].pre.block # <<>>
    /\ runs[i].pre.block[1].stmt = "SendStmt"
    /\ LET st == runs[i].pre.block[1]
           l == callNegotiateExprType(UnknownType, st.Lhs, runs[i].pre.varTypes)
           r == callNegotiateExprType(UnknownType, st.Rhs, runs[i].pre.varTypes)
       IN  /\ l.err = Nil
           /\ r.err = Nil
           /\ Kind(RootType(l.slot)) = "CHAN"
           /\ RootType(l.slot).Dir = CHAN_DIR_RECEIVE

\* C17: SendStmt.NegotiateTypes returns nil only if the root of the left
\* operand's type is a CHAN whose direction is not receive-only and the right
\* operand's type is assignable to the channel's element type; when both
\* operands negotiate and the channel is receive-only it fails with
\* "Channel is receive-only".
C17_SendNeedsSendableChannel ==
    \A i \in 1..Len(runs) :
        unit = "block" =>
            /\ runs[i].err = Nil =>
                    \A j \in 1..Len(After(i).block) :
                        After(i).block[j].stmt = "SendStmt" =>
                            /\ Kind(SendRoot(After(i).block[j], After(i).varTypes)) = "CHAN"
                            /\ SendRoot(After(i).block[j], After(i).varTypes).Dir
                                    # CHAN_DIR_RECEIVE
                            /\ callIsAssignable(
                                    SendRoot(After(i).block[j], After(i).varTypes).Of,
                                    callTypeOf(After(i).block[j].Rhs, After(i).varTypes))
            /\ SendsOnReceiveOnly(i) => runs[i].err = "Channel is receive-only"

\* A send on a receive-only channel was refused after both operands had
\* negotiated.
C17_Witness ==
    /\ unit = "block"
    /\ Len(runs) >= 1
    /\ SendsOnReceiveOnly(1)
    /\ runs[1].err = "Channel is receive-only"
    /\ callTypeOf(After(1).block[1].Rhs, After(1).varTypes) = IntT

\* C18: AreOrdered(a, b) is true if and only if a and b are comparable and
\* both are SIMPLE with the same id, that id being int or string; for every
\* other pair, comparable pairs that are not SIMPLE included (the same named
\* type twice, say), it returns false.
C18_AreOrderedExactly ==
    (unit = "types" /\ verdicts.AreOrdered.done) =>
        /\ verdicts.AreOrdered.err = Nil
        /\ verdicts.AreOrdered.ok =
            (/\ AreComparable(leftType, rightType)
             /\ Kind(leftType) = "SIMPLE"
             /\ Kind(rightType) = "SIMPLE"
             /\ leftType.id = rightType.id
             /\ leftType.id \in {"int", "string"})

\* C19: GuessType of any expression, binary and unary operations and compound
\* literals included, changes neither the recorded type of that expression
\* nor the recorded type of any of its sub-expressions.
C19_GuessTypeRecordsNothing ==
    \A i \in 1..Len(runs) :
        unit = "guess" => After(i).valueExpr = runs[i].pre.valueExpr

\* Call i of ApplyType hands a tuple to a channel receive or a type assertion.
TupleApplied(i) ==
    /\ unit = "apply"
    /\ Kind(runs[i].pre.slotType) = "TUPLE"
    /\ \/ runs[i].pre.valueExpr.node = "TypeAssertion"
       \/ /\ runs[i].pre.valueExpr.node = "UnaryOp"
          /\ runs[i].pre.valueExpr.op = "TOKEN_SEND"

\* The first member of the tuple matches what the node yields: the element
\* type of the channel received from, or the asserted type.
FirstMemberMatches(e, tuple, vs) ==
    IF e.node = "TypeAssertion"
    THEN TypeString(e.Right.typ) = TypeString(tuple.Members[1])
    ELSE /\ Kind(RootType(callTypeOf(e.Right, vs))) = "CHAN"
         /\ callIsAssignable(RootType(callTypeOf(e.Right, vs)).Of, tuple.Members[1])

\* C20: ApplyType with a TUPLE on a channel receive or a type assertion
\* returns nil only if the tuple has exactly two members, the second is
\* bool-assignable and the first matches the channel's element type or the
\* asserted type, and then the tuple is recorded as the node's type; for any
\* other tuple an error is returned.
C20_TupleOfValueAndBool ==
    \A i \in 1..Len(runs) :
        TupleApplied(i) =>
            /\ runs[i].err # Panic
            /\ runs[i].err = Nil =>
                    /\ Len(runs[i].pre.slotType.Members) = 2
                    /\ IsBoolAssignable(runs[i].pre.slotType.Members[2])
                    /\ FirstMemberMatches(runs[i].pre.valueExpr, runs[i].pre.slotType,
                                          runs[i].pre.varTypes)
                    /\ After(i).valueExpr.typ = runs[i].pre.slotType

-----------------------------------------------------------------------------
(* C26: in every reachable state of the scope-emitting lexer the indent    *)
(* stack is strictly increasing from bottom to top.                        *)
C26_StackStrictlyIncreasing ==
    lexer = "scope" =>
        \A i, j \in 1..Len(indentsStack) :
            i < j => indentsStack[i] < indentsStack[j]

\* Two scopes are open, one inside the other.
C26_Witness ==
    /\ lexer = "scope"
    /\ NCalls > 0
    /\ Len(indentsStack) >= 2

\* How many ENDSCOPE tokens wait in a queue.
QueuedEnds(q) == Cardinality({j \in 1..Len(q) : q[j].Type = TOKEN_ENDSCOPE})

(* C27: after any number k of Next() calls of the scope-emitting lexer, the *)
(* NEWSCOPE tokens returned so far are as many as the ENDSCOPE tokens       *)
(* returned so far, plus the ENDSCOPE tokens waiting in the queue, plus the *)
(* entries of the indent stack; so no prefix of the token stream holds more *)
(* ENDSCOPE than NEWSCOPE tokens.                                           *)
C27_ScopeAccounting ==
    lexer = "scope" =>
        \A k \in 0..NCalls :
            /\ CountTok(TOKEN_NEWSCOPE, k)
                   = CountTok(TOKEN_ENDSCOPE, k) + QueuedEnds(PostQueue(k)) + Len(PostStack(k))
            /\ CountTok(TOKEN_ENDSCOPE, k) <= CountTok(TOKEN_NEWSCOPE, k)

\* Two scopes were opened and their closing is half delivered: one ENDSCOPE
\* is returned, the other still queued.
C27_Witness ==
    /\ lexer = "scope"
    /\ CountTok(TOKEN_NEWSCOPE, NCalls) >= 2
    /\ CountTok(TOKEN_ENDSCOPE, NCalls) > 0
    /\ QueuedEnds(queue) > 0

\* Call i of ApplyType returned an error.
ApplyFailed(i) == unit = "apply" /\ runs[i].err \notin {Nil, Panic}

(* C25: an ApplyType call that returns an error leaves the recorded type   *)
(* (typ) of the node it was called on as it was before the call, so only a *)
(* call that returns nil sets a node's recorded type.                      *)
C25_ErrorKeepsRecordedType ==
    \A i \in 1..Len(runs) :
        ApplyFailed(i) => After(i).valueExpr.typ = runs[i].pre.valueExpr.typ

-----------------------------------------------------------------------------
(* Claims about the lexer of lexer.go. *)

\* The text the lexer was constructed on.
Input == IF NCalls = 0 THEN buf ELSE calls[1].pre.buf

\* The buffer after call i.
PostBuf(i) == IF i < NCalls THEN calls[i + 1].pre.buf ELSE buf

\* How many runes of the input were consumed before and after call i.
ConsumedBefore(i) == Len(Input) - Len(calls[i].pre.buf)
ConsumedAfter(i) == Len(Input) - Len(PostBuf(i))

\* Call i returned a token.
GotToken(i) == calls[i].tok # NoToken

\* The maximal run of letters and digits of the input that starts at offset off.
RunAt(off) ==
    StringOf(SubSeq(Input, off + 1, off + AlnumRun(DropFirst(Input, off))))

\* Call i returned the token of a run that starts with a letter.
WordCall(i) ==
    /\ lexer = "rich"
    /\ GotToken(i)
    /\ calls[i].tok.Type # RTOKEN_INDENT
    /\ calls[i].tok.Offset < Len(Input)
    /\ IsLetter(Input[calls[i].tok.Offset + 1])

\* The keywords as the specification lists them, each with its token.
ListedKeywords ==
    [ for |-> "TOKEN_FOR", if |-> "TOKEN_IF", else |-> "TOKEN_ELSE",
      elif |-> "TOKEN_ELIF", switch |-> "TOKEN_SWITCH", case |-> "TOKEN_CASE",
      return |-> "TOKEN_RETURN", true |-> "TOKEN_TRUE", false |-> "TOKEN_FALSE",
      struct |-> "TOKEN_STRUCT", interface |-> "TOKEN_INTERFACE", map |-> "TOKEN_MAP",
      func |-> "TOKEN_FUNC", type |-> "TOKEN_TYPE", var |-> "TOKEN_VAR",
      pass |-> "TOKEN_PASS", package |-> "TOKEN_PACKAGE", break |-> "TOKEN_BREAK",
      continue |-> "TOKEN_CONTINUE", fallthrough |-> "TOKEN_FALLTHROUGH",
      goto |-> "TOKEN_GOTO", nil |-> "TOKEN_NIL", in |-> "TOKEN_IN" ]

(* C21: a maximal run of letters and digits that starts with a letter is   *)
(* returned as its keyword token exactly when its text is one of the       *)
(* listed keywords, and as a WORD token carrying the text otherwise.       *)
C21_KeywordsExactly ==
    \A i \in 1..NCalls :
        WordCall(i) =>
            LET text == RunAt(calls[i].tok.Offset) IN
            IF text \in DOMAIN ListedKeywords
            THEN calls[i].tok.Type = ListedKeywords[text]
            ELSE calls[i].tok.Type = RTOKEN_WORD /\ calls[i].tok.Value = text

\* The tokens returned by the calls before call i.
EarlierTokens(i) == {calls[j].tok : j \in {k \in 1..(i - 1) : GotToken(k)}}

(* C22: the Offset of every token the lexer of lexer.go returns (INDENT    *)
(* and end-of-input tokens included) lies between 0 and the length of the  *)
(* input, is not below the Offset of any token returned before it, and is  *)
(* the number of runes consumed before the scanning of the token began:    *)
(* the call consumed only white space and newlines up to it, the token     *)
(* begins right there, and end-of-input has the length of the input.       *)
C22_OffsetsTrackInput ==
    lexer = "rich" =>
        \A i \in 1..NCalls :
            GotToken(i) =>
                LET off == calls[i].tok.Offset IN
                /\ 0 <= off /\ off <= Len(Input)
                /\ \A t \in EarlierTokens(i) : t.Offset <= off
                /\ ConsumedBefore(i) <= off /\ off <= ConsumedAfter(i)
                /\ \A p \in (ConsumedBefore(i) + 1)..off : IsSpace(Input[p])
                /\ IF calls[i].tok.Type = RTOKEN_EOF THEN off = Len(Input)
                   ELSE IF calls[i].tok.Type = RTOKEN_INDENT
                   THEN /\ Input[off + 1] = NL
                        /\ ConsumedAfter(i) = off + 1 + Len(calls[i].tok.Value)
                   ELSE off < ConsumedAfter(i) /\ ~IsSpace(Input[off + 1])

\* A token of a new line is returned behind the INDENT of the line, and
\* end-of-input behind both.
C22_Witness ==
    /\ lexer = "rich"
    /\ NCalls = 3
    /\ calls[1].tok.Type = RTOKEN_INDENT
    /\ GotToken(2) /\ calls[2].tok.Type \notin {RTOKEN_EOF, RTOKEN_INDENT}
    /\ calls[2].tok.Offset >= 1
    /\ calls[3].tok.Type = RTOKEN_EOF

\* The text of an error holds this piece of text.
Mentions(text, piece) ==
    \E k \in 1..(Len(text) - Len(piece) + 1) :
        SubSeq(text, k, k + Len(piece) - 1) = piece

(* C23: every error a Next() call returns names a cursor position of the   *)
(* failure: its text holds the decimal of a position between the cursor    *)
(* before the call and the cursor after it.                                *)
C23_ErrorsCarryPosition ==
    \A i \in 1..NCalls :
        calls[i].err \notin {Nil, Panic} =>
            \E p \in ConsumedBefore(i)..ConsumedAfter(i) :
                Mentions(calls[i].err, ToString(p))

(* C24: every Next() call of either lexer returns after finitely many      *)
(* passes through its body, and the repeated calls reach the end-of-input  *)
(* token or an error.                                                      *)
C24_CallsReturnAndRunsEnd ==
    /\ (pc = "Next") ~> (pc = "idle")
    /\ <>(EndedCalls # {})

====
